---- MODULE Spec2Model ----
(***************************************************************************)
(* Batch enrichment pipeline of SmartVisionAIApp.                          *)
(*                                                                         *)
(* ImagesDescriber.add_metadata (embed strategy) and                       *)
(* CSVGenerator.write_data_to_csv (ledger strategy) as one state machine:  *)
(* the position of the worker in the method (pc), the local variables of   *)
(* the method, and the part of the file system the method touches.         *)
(* Every library call that can fail is a step with one successor per       *)
(* outcome; an exception in flight is carried in exc until the except and  *)
(* finally clauses of the source have dealt with it.                       *)
(***************************************************************************)
EXTENDS Integers, Sequences, FiniteSets, TLC

\* Largest number of image files Discovery returns for one embed batch.
MaxFiles == 3

\* Largest number of image files Discovery returns for one ledger batch.
MaxLedgerFiles == 5

\* Most entries in a source folder whose content is enumerated.
MaxEntries == 3

\* Most batches started on the same folder.
MaxRuns == 2

\* Longest title or description, in letters, in an enumerated response body.
MaxText == 2

\* Longest keyword list in an enumerated response body.
MaxKeywords == 3

\* Most images in a batch whose service may answer with any response body.
MaxParsedFiles == 2

\* Most log records a worker emits.
MaxRecords == 3

\* Most processing-status windows created.
MaxWindows == 2

\* Most entries in the list of processes holding an image open.
MaxHolders == 2

\* Most images in a batch whose Lock Releaser is followed step by step.
MaxLockedFiles == 1

\* Most worker threads started by RUN in one run of the application.
MaxWorkers == 2

\* Most images in the folder that concurrent batches share.
MaxSharedFiles == 2

VARIABLES
    strategy,                \* "embed" (ImagesDescriber) or "ledger" (CSVGenerator)
    pc,                      \* position of the worker inside the method
    filtered_image_files,    \* the list Discovery returned, <<1, .., n>>
    idx,                     \* position of the for loop: index of the current item, 0 before the loop
    processed_count,         \* local processed_count
    unprocessed_count,       \* local unprocessed_count, computed after the loop
    successfully_processed,  \* local flag of the embed loop
    temp_image_path,         \* local temp_image_path: 0 = never assigned, i = temp file made for item i
    exc,                     \* exception in flight in the current item, "none" if none
    dst_kind,                \* relation of dst_path to src_path: "same" string, "alias" of the same folder, "other" folder
    dst_dir_exists,          \* the destination directory exists
    srcDisk,                 \* content of the file at image_path, per item
    dstDisk,                 \* content of the file at destination_path when dst is another folder, per item
    tempDisk,                \* content of the temp file made for each item
    dstBak,                  \* a file destination_path + '~' exists, per item
    tmpBak,                  \* a file temp_image_path + '~' exists, per item
    platform,                \* platform.system() and whether the enumeration tool is installed
    terminated,              \* pids terminated by the Lock Releaser
    credential,              \* the credential file openai_key.txt
    requests_sent,           \* number of requests.post calls made
    image_caption,           \* local image_caption: "unset", or what get_metadata returned
    csv_exists,              \* the ledger file of this batch exists (its header row is written on creation)
    csv_rows,                \* number of data rows in the ledger file
    outcome,                 \* per item: "pending", "ok", "failed", "unreachable", "fatal"
    failed_step,             \* step at which the current item raised, "none" if it did not
    summaries,               \* number of calls of execution_timer
    exit_status,             \* status passed to sys.exit, 0 if sys.exit was not called
    made_dir,                \* os.makedirs created the destination directory in this batch
    readers,                 \* outcomes of the two caption readers for the current item
    gen_prompt,              \* the prompt of the current item's request: "unset", "prompt", "prompt+context"
    directory,               \* the entries of the source folder, in os.listdir order
    runs,                    \* how many batches have listed the source folder
    first_listing,           \* what the first batch discovered
    response,                \* the response body the service returned for the current item
    result,                  \* title, description and keywords the parser returned for the current item
    log_window,              \* the Text widget of the processing-status window, 0 when no window exists
    log_handlers,            \* the TextHandlers attached to the root logger, each named by its widget
    emitted,                 \* per log record emitted by a worker: the widget that existed then, 0 if none
    after_queue,             \* the append callbacks scheduled with after() that have not run yet
    log_text,                \* per widget: the records inserted into it and the thread that inserted each
    root_exists,             \* the application's main window (the Tk root) has not been destroyed
    steps_done,              \* the steps the current item has completed, in order
    processes,               \* the list get_processes_using_file_* returned for the current item
    proc_idx,                \* position of the loop over processes, 0 before the loop
    lock_events,             \* what the Lock Releaser did for the current item, in order
    thread_callback,         \* per worker thread: "none" until RUN starts it, then the strategy it runs
    thread_pc,               \* per worker thread: its position in the item loop
    thread_idx,              \* per worker thread: index of its current item
    thread_processes,        \* per worker thread: the holders its Lock Releaser has still to handle
    viewer_open,             \* the images another program holds open
    app_signalled,           \* process.terminate() was called on the pid of the application itself
    windows,                 \* per input window: whether it exists, and the content of its three fields
    bound_fields,            \* the window whose widgets self.prompt_entry, self.src_folder_path, self.dst_folder_path name
    prompt_msg,              \* the text of prompt_msg.txt
    confirmed,               \* what the last confirmed RUN validated and showed, "none" before
    constructed,
    app_settings_window,     \* the settings window exists
    openai_key_entry,        \* the text of the API key entry of the settings window
             \* the arguments the worker built its ImagesDescriber or CSVGenerator with
    api_key                  \* the bearer credential of the last request sent, "unset" before the first

vars == <<strategy, pc, filtered_image_files, idx, processed_count, unprocessed_count,
          successfully_processed, temp_image_path, exc, dst_kind, dst_dir_exists,
          srcDisk, dstDisk, tempDisk, dstBak, tmpBak, platform, terminated, credential,
          requests_sent, image_caption, csv_exists, csv_rows, outcome, failed_step, summaries, exit_status, made_dir,
          readers,
          gen_prompt,
          directory,
          runs,
          first_listing,
          response,
          result,
          log_window, log_handlers, emitted, after_queue, log_text, root_exists,
          steps_done,
          processes, proc_idx, lock_events,
          thread_callback, thread_pc, thread_idx, thread_processes, viewer_open,
          app_signalled,
          windows, bound_fields, prompt_msg, confirmed, constructed,
          app_settings_window, openai_key_entry,
          api_key>>

\* The state of the Lock Releaser when it is followed step by step.
lockVars == <<processes, proc_idx, lock_events>>

\* The worker threads of one run of the application and the holders of the images.
threadVars ==
    <<thread_callback, thread_pc, thread_idx, thread_processes, viewer_open, app_signalled>>

\* The input windows of the application and the batch started from them.
uiVars == <<windows, bound_fields, prompt_msg, confirmed, constructed>>

\* The settings window.
settingsVars == <<app_settings_window, openai_key_entry>>

\* The state outside the step-by-step Lock Releaser.
outsideLock == <<threadVars, uiVars, settingsVars>>

\* The state outside the worker threads.
outsideThreads == <<lockVars, uiVars, settingsVars>>

\* The state outside the input windows.
outsideUi == <<lockVars, threadVars, settingsVars>>

\* The state outside the settings window.
outsideSettings == <<lockVars, threadVars, uiVars>>

\* The state no step of add_metadata or write_data_to_csv changes.
auxVars == <<lockVars, threadVars, uiVars, settingsVars>>

\* The state of the log sink.
logVars == <<log_window, log_handlers, emitted, after_queue, log_text, root_exists>>


\* The locals of add_metadata and write_data_to_csv and the files they touch.
methodVars ==
    <<strategy, pc, filtered_image_files, idx, processed_count, unprocessed_count,
      successfully_processed, temp_image_path, exc, dst_kind, dst_dir_exists, srcDisk,
      dstDisk, tempDisk, dstBak, tmpBak, platform, terminated, credential, requests_sent,
      image_caption, csv_exists, csv_rows, outcome, failed_step, summaries, exit_status,
      made_dir, readers, gen_prompt, directory, runs, first_listing, response, result,
      steps_done, api_key>>

\* The state of the batch and of its folders.
batchVars == <<methodVars, auxVars>>

Items == 1..(IF MaxFiles > MaxLedgerFiles THEN MaxFiles ELSE MaxLedgerFiles)

\* Pids of the processes that may hold an image file open.
Pids == {1, 2}

\* File contents: no file, the original image bytes, a complete file that was at the
\* destination before the batch, the complete rewritten image, an empty temp file, a
\* file that was only partly written.
Contents == {"none", "orig", "old", "new", "empty", "partial"}

\* platform.system() values, with macOS split by whether lsof can be run.
Platforms == {"Darwin", "DarwinNoLsof", "Windows", "Other"}

\* openai_key.txt: absent, or its text split at '; '.
CredentialFiles ==
    { [exists |-> FALSE, fields |-> <<>>],
      [exists |-> TRUE, fields |-> <<"date">>],
      [exists |-> TRUE, fields |-> <<"date", "key">>] }

\* Destination configurations: kind, whether the directory exists, what is at the
\* destination paths and whether item 1 already has a '~' sibling there.
DstConfigs ==
    { [kind |-> "same",  dir |-> TRUE,  old |-> FALSE, bak |-> FALSE],
      [kind |-> "same",  dir |-> TRUE,  old |-> FALSE, bak |-> TRUE],
      [kind |-> "alias", dir |-> TRUE,  old |-> FALSE, bak |-> FALSE],
      [kind |-> "other", dir |-> FALSE, old |-> FALSE, bak |-> FALSE],
      [kind |-> "other", dir |-> TRUE,  old |-> FALSE, bak |-> FALSE],
      [kind |-> "other", dir |-> TRUE,  old |-> TRUE,  bak |-> TRUE] }

\* The two input windows, named by the attribute that holds them.
InputWindows == {"add_metadata_window", "generate_csv_window"}

\* A window that was never created.
NoWindow == [exists |-> FALSE, prompt |-> "", src |-> "", dst |-> ""]

\* No RUN confirmed, no batch object constructed.
NoRun == [pressed |-> "none", read_from |-> "none", prompt |-> "", src |-> "", dst |-> ""]

\* No response received yet for the current item.
NoResponse == [payload |-> "unset", title |-> <<>>, description |-> <<>>, keywords |-> <<>>]

\* title, description, keywords not assigned yet for the current item.
NoResult == [status |-> "unset", title |-> <<>>, description |-> <<>>, keywords |-> <<>>]

\* Extensions of the entries of a source folder, letter by letter; <<>> is a name
\* without extension.
Extensions ==
    {<<"j", "p", "g">>, <<"J", "P", "G">>, <<"J", "p", "e", "g">>, <<"j", "p">>,
     <<"t", "x", "t">>, <<>>}

\* An entry of the source folder, its name apart: a regular file or a subdirectory.
Entries == [ext : Extensions, kind : {"file", "dir"}]

\* The folders of at most MaxEntries entries; the entries have distinct names, here
\* the numbers of their places in the listing.
Directories ==
    UNION {{[i \in 1..n |-> [name |-> i, ext |-> d[i].ext, kind |-> d[i].kind]] :
               d \in [1..n -> Entries]} : n \in 0..MaxEntries}

\* A folder of n .jpg images, named by their item number, and one text file.
StockDirectory(n) ==
    [i \in 1..(n + 1) |->
        IF i <= n THEN [name |-> i, ext |-> <<"j", "p", "g">>, kind |-> "file"]
        ELSE [name |-> i, ext |-> <<"t", "x", "t">>, kind |-> "file"]]

\* The state when a batch starts, the content of the source folder left open.
InitBatch ==
    /\ strategy \in {"embed", "ledger"}
    /\ pc = "start"
    /\ filtered_image_files = <<>>
    /\ idx = 0
    /\ processed_count = 0
    /\ unprocessed_count = 0
    /\ successfully_processed = FALSE
    /\ temp_image_path = 0
    /\ exc = "none"
    /\ \E c \in DstConfigs :
          /\ strategy = "ledger" => c.kind = "other" /\ ~c.old
          /\ dst_kind = c.kind
          /\ dst_dir_exists = c.dir
          /\ dstDisk = [i \in Items |-> IF c.old THEN "old" ELSE "none"]
          /\ dstBak = [i \in Items |-> c.bak /\ i = 1]
    /\ srcDisk = [i \in Items |-> "orig"]
    /\ tempDisk = [i \in Items |-> "none"]
    /\ tmpBak = [i \in Items |-> FALSE]
    /\ platform \in (IF strategy = "embed" THEN Platforms ELSE {"Other"})
    /\ terminated = {}
    /\ credential \in CredentialFiles
    /\ requests_sent = 0
    /\ image_caption = "unset"
    /\ csv_exists = FALSE
    /\ csv_rows = 0
    /\ outcome = [i \in Items |-> "pending"]
    /\ failed_step = "none"
    /\ summaries = 0
    /\ exit_status = 0
    /\ made_dir = FALSE
    /\ readers = [iptc |-> "unset", xmp |-> "unset"]
    /\ gen_prompt = "unset"
    /\ runs = 0
    /\ first_listing = <<>>
    /\ response = NoResponse
    /\ result = NoResult
    /\ log_window = 0
    /\ log_handlers = <<>>
    /\ emitted = <<>>
    /\ after_queue = <<>>
    /\ log_text = [w \in 1..MaxWindows |-> <<>>]
    /\ root_exists = TRUE
    /\ steps_done = <<>>
    /\ processes = <<>>
    /\ proc_idx = 0
    /\ lock_events = <<>>
    /\ thread_callback = [w \in 1..MaxWorkers |-> "none"]
    /\ thread_pc = [w \in 1..MaxWorkers |-> "idle"]
    /\ thread_idx = [w \in 1..MaxWorkers |-> 0]
    /\ thread_processes = [w \in 1..MaxWorkers |-> <<>>]
    /\ viewer_open = {}
    /\ app_signalled = FALSE
    /\ windows = [x \in InputWindows |-> NoWindow]
    /\ bound_fields = "none"
    /\ prompt_msg = ""
    /\ confirmed = NoRun
    /\ constructed = NoRun
    /\ api_key = "unset"
    /\ app_settings_window = FALSE
    /\ openai_key_entry = ""

\* A batch is started on a folder of n images and one text file.
Init ==
    /\ InitBatch
    /\ \E n \in 0..(IF strategy = "embed" THEN MaxFiles ELSE MaxLedgerFiles) :
          directory = StockDirectory(n)

\* A ledger batch is started on any folder of at most MaxEntries entries.
DiscoveryInit ==
    /\ InitBatch
    /\ strategy = "ledger"
    /\ credential.exists /\ Len(credential.fields) = 2
    /\ dst_dir_exists
    /\ directory \in Directories


(***************************************************************************)
(* Exceptions                                                              *)
(***************************************************************************)

\* Classes derived from Exception. SystemExit, raised by sys.exit, derives from
\* BaseException only.
ExceptionClasses ==
    {"OSError", "FileNotFoundError", "ConnectionError", "ValueError", "ParseError",
     "UnboundLocalError"}

\* A bare `except:` in place of `except Exception`.
CaughtByBareExcept(e) == TRUE

\* `except ParseError` in place of `except Exception`.
CaughtByExceptParseError(e) == e = "ParseError"

\* `except Exception as e` of the item loops.
CaughtByExceptException(e) == e \in ExceptionClasses

\* `if filtered_image_files is None` in place of the emptiness test.
NoImageFilesIsNone(files) == FALSE

\* `if not filtered_image_files`
NoImageFiles(files) == Len(files) = 0

\* The count taken from the last index of the list instead of its length.
UnprocessedCountOffByOne(total, processed) == total - 1 - processed

\* `len(filtered_image_files) - processed_count`
UnprocessedCount(total, processed) == total - processed

\* `image_path != destination_path`: the two joined path strings differ.
PathsDiffer == dst_kind # "same"

\* The file at destination_path is the file at image_path.
SameLocation == dst_kind \in {"same", "alias"}

\* Content of the file at destination_path of item i.
DestContent(i) == IF SameLocation THEN srcDisk[i] ELSE dstDisk[i]

\* A write of content c to destination_path of item i.
SetDest(i, c) ==
    IF SameLocation
    THEN srcDisk' = [srcDisk EXCEPT ![i] = c] /\ UNCHANGED dstDisk
    ELSE dstDisk' = [dstDisk EXCEPT ![i] = c] /\ UNCHANGED srcDisk

\* process_photo's credential read: `line.split('; ')[1].strip()`, sys.exit(1) when
\* the file is missing or has no second field.
ReadApiKey(file) ==
    IF ~file.exists THEN "SystemExit"
    ELSE IF Len(file.fields) < 2 THEN "SystemExit"
    ELSE file.fields[2]

\* What requests.post(...).json() can do once the credential is read: raise a
\* connection error, raise on a body that is not JSON, or return a response.
ServiceFailures == {"ConnectionError", "ValueError"}

\* Texts of at most MaxText letters, a letter being "a" or a space.
Texts == UNION {[1..n -> {" ", "a"}] : n \in 0..MaxText}

\* Keyword lists of at most MaxKeywords entries, some of them empty or repeated.
KeywordLists == UNION {[1..n -> {"", "sun", "sky"}] : n \in 0..MaxKeywords}

\* A response body: noise with no extractable structure, or text from which a
\* title, a description and a keyword list can be extracted. Every title with every
\* description, and every keyword list.
AllResponses ==
    [payload : {"fields"}, title : Texts, description : Texts,
     keywords : {<<"sun", "", "sun">>}]
       \cup [payload : {"fields"}, title : {<<" ", "a">>}, description : {<<"a", " ">>},
             keywords : KeywordLists]
       \cup {[payload |-> "noise", title |-> <<>>, description |-> <<>>, keywords |-> <<>>]}

\* The responses of an ordinary batch: a well-formed one, one without structure,
\* one with a blank title, one with a blank description.
Responses ==
    {[payload |-> "fields", title |-> <<" ", "a">>, description |-> <<"a", " ">>,
      keywords |-> <<"sun", "", "sun">>],
     [payload |-> "noise", title |-> <<>>, description |-> <<>>, keywords |-> <<>>],
     [payload |-> "fields", title |-> <<" ">>, description |-> <<"a">>, keywords |-> <<"sky">>],
     [payload |-> "fields", title |-> <<"a">>, description |-> <<>>, keywords |-> <<"sky">>]}

\* What the parser leaves when it raises ParseError: nothing is assigned.
ParseErrorResult ==
    [status |-> "ParseError", title |-> <<>>, description |-> <<>>, keywords |-> <<>>]

RECURSIVE TrimLeft(_)
\* A text without its leading spaces.
TrimLeft(t) == IF t # <<>> /\ Head(t) = " " THEN TrimLeft(Tail(t)) ELSE t

RECURSIVE TrimRight(_)
\* A text without its trailing spaces.
TrimRight(t) ==
    IF t # <<>> /\ t[Len(t)] = " " THEN TrimRight(SubSeq(t, 1, Len(t) - 1)) ELSE t

\* str.strip()
Trim(t) == TrimRight(TrimLeft(t))

RECURSIVE Normalise(_, _)
\* The keyword list with its empty entries dropped and each keyword kept at its
\* first occurrence only; `seen` holds the keywords kept so far.
Normalise(keywords, seen) ==
    IF keywords = <<>> THEN <<>>
    ELSE IF Head(keywords) = "" \/ Head(keywords) \in seen
    THEN Normalise(Tail(keywords), seen)
    ELSE <<Head(keywords)>> \o Normalise(Tail(keywords), seen \cup {Head(keywords)})

\* A parser that validates title and description as they come, untrimmed.
ParseResponseUntrimmed(body) ==
    IF body.payload # "fields" \/ body.title = <<>> \/ body.description = <<>>
    THEN ParseErrorResult
    ELSE [status |-> "ok", title |-> body.title, description |-> body.description,
          keywords |-> Normalise(body.keywords, {})]

\* Response Parser: a DescriptionResult for a response with extractable title and
\* description that are non-empty after trimming, ParseError otherwise.
ParseResponse(body) ==
    IF body.payload # "fields" \/ Trim(body.title) = <<>> \/ Trim(body.description) = <<>>
    THEN ParseErrorResult
    ELSE [status |-> "ok", title |-> Trim(body.title), description |-> Trim(body.description),
          keywords |-> Normalise(body.keywords, {})]

\* The current item has completed these steps, after those it had completed.
StepsDone(steps) == steps_done' = steps_done \o steps

\* An except clause inside the loop body that logs the exception and lets the body
\* go on to the field assignments.
RaiseInTrySwallowed(e, s) ==
    /\ failed_step' = s
    /\ exc' = "none"
    /\ outcome' = [outcome EXCEPT ![idx] = "failed"]
    /\ pc' = "persist"

\* An exception e raised at step s inside the try block of the embed loop: the
\* except clause clears it when it catches it, and control goes to the finally clause.
RaiseInTry(e, s) ==
    /\ failed_step' = s
    /\ exc' = IF CaughtByExceptException(e) THEN "none" ELSE e
    /\ outcome' = [outcome EXCEPT ![idx] =
                      IF e = "SystemExit" THEN "fatal"
                      ELSE IF e = "ConnectionError" THEN "unreachable" ELSE "failed"]
    /\ pc' = "finally"

\* An exception e that leaves the method: SystemExit ends the batch with the exit
\* status, any other exception ends the worker with a traceback.
Escape(e) ==
    /\ exc' = e
    /\ pc' = IF e = "SystemExit" THEN "FatalAbort" ELSE "Crashed"

(***************************************************************************)
(* Caption Extractor: img_metadata_reader.get_metadata                     *)
(***************************************************************************)

\* What a reader finds: a caption, an empty field, or a failure (no container, parse
\* error, exiftool missing), which the reader catches and logs.
ReaderOutcomes == {"value", "empty", "failure"}

\* read_iptc_data: info['caption/abstract'], None after a caught exception.
ReadIptcData(o) ==
    IF o = "value" THEN "iptc_caption" ELSE IF o = "empty" THEN "" ELSE "None"

\* read_xmp_data: the stripped text of the x-default <rdf:li> entry, None after a
\* caught exception.
ReadXmpData(o) ==
    IF o = "value" THEN "xmp_caption" ELSE IF o = "empty" THEN "" ELSE "None"

\* Python truth value of a str-or-None.
Truthy(v) == v \notin {"None", ""}

\* `return xmp_description or iptc_description`: the operands swapped.
GetMetadataXmpFirst(iptc, xmp) ==
    IF Truthy(ReadXmpData(xmp)) THEN ReadXmpData(xmp) ELSE ReadIptcData(iptc)

\* `return iptc_description or xmp_description`
GetMetadata(iptc, xmp) ==
    IF Truthy(ReadIptcData(iptc)) THEN ReadIptcData(iptc) ELSE ReadXmpData(xmp)

(***************************************************************************)
(* Discovery, common to both strategies                                    *)
(***************************************************************************)

\* One letter of a file name after str.lower().
LowerChar(c) ==
    CASE c = "J" -> "j"
      [] c = "P" -> "p"
      [] c = "E" -> "e"
      [] c = "G" -> "g"
      [] OTHER -> c

\* An extension after case folding.
Lower(ext) == [i \in DOMAIN ext |-> LowerChar(ext[i])]

\* The fixed allowlist of image extensions: jpg, jpeg.
Allowlist == {<<"j", "p", "g">>, <<"j", "p", "e", "g">>}

\* Discovery keeps an entry when it is a regular file whose extension, case
\* folded, is on the allowlist.
KeepEntry(e) == e.kind = "file" /\ Lower(e.ext) \in Allowlist

\* Discovery that compares extensions without case folding.
FilterFilesByExtensionCaseSensitive(dir) ==
    LET kept == SelectSeq(dir, LAMBDA e : e.kind = "file" /\ e.ext \in Allowlist)
    IN  [i \in 1..Len(kept) |-> kept[i].name]

\* filter_files_by_extension(src_path): the names of the kept entries, in the
\* order of the directory listing; subdirectories are not entered.
FilterFilesByExtension(dir) ==
    LET kept == SelectSeq(dir, KeepEntry)
    IN  [i \in 1..Len(kept) |-> kept[i].name]

Discover ==
    /\ pc = "start"
    /\ filtered_image_files' = FilterFilesByExtension(directory)
    /\ runs' = runs + 1
    /\ first_listing' = IF runs = 0 THEN filtered_image_files' ELSE first_listing
    /\ IF NoImageFiles(filtered_image_files')
       THEN pc' = "FatalAbort" /\ exit_status' = 1
       ELSE pc' = (IF strategy = "embed" THEN "loop" ELSE "csv_open") /\ UNCHANGED exit_status
    /\ UNCHANGED <<api_key, auxVars, steps_done, logVars, result, response, directory, gen_prompt, readers, strategy, idx, processed_count, unprocessed_count, successfully_processed,
                   temp_image_path, exc, dst_kind, dst_dir_exists, srcDisk, dstDisk, tempDisk,
                   dstBak, tmpBak, platform, terminated, credential, requests_sent,
                   image_caption, csv_exists, csv_rows, outcome, failed_step, summaries, made_dir>>

(***************************************************************************)
(* Embed strategy: ImagesDescriber.add_metadata                            *)
(***************************************************************************)

NextItem ==
    /\ pc = "loop"
    /\ strategy = "embed"
    /\ IF idx < Len(filtered_image_files)
       THEN /\ idx' = idx + 1
            /\ pc' = "makedirs"
       ELSE /\ pc' = "report"
            /\ UNCHANGED idx
    /\ failed_step' = "none"
    /\ image_caption' = "unset"
    /\ readers' = [iptc |-> "unset", xmp |-> "unset"]
    /\ gen_prompt' = "unset"
    /\ response' = NoResponse
    /\ result' = NoResult
    /\ steps_done' = IF idx < Len(filtered_image_files) THEN <<>> ELSE steps_done
    /\ UNCHANGED <<api_key, auxVars, logVars, first_listing, runs, directory, strategy, filtered_image_files, processed_count, unprocessed_count,
                   successfully_processed, temp_image_path, exc, dst_kind, dst_dir_exists,
                   srcDisk, dstDisk, tempDisk, dstBak, tmpBak, platform, terminated,
                   credential, requests_sent, csv_exists, csv_rows, outcome, summaries,
                   exit_status, made_dir>>

EnsureDestinationDir ==
    /\ pc = "makedirs"
    /\ IF DestContent(idx) = "none"
       THEN dst_dir_exists' = TRUE /\ made_dir' = (made_dir \/ ~dst_dir_exists)
       ELSE UNCHANGED <<dst_dir_exists, made_dir>>
    /\ pc' = "lock"
    /\ UNCHANGED <<api_key, auxVars, steps_done, logVars, result, response, first_listing, runs, directory, gen_prompt, readers, strategy, filtered_image_files, idx, processed_count, unprocessed_count,
                   successfully_processed, temp_image_path, exc, dst_kind, srcDisk, dstDisk,
                   tempDisk, dstBak, tmpBak, platform, terminated, credential, requests_sent,
                   image_caption, csv_exists, csv_rows, outcome, failed_step, summaries,
                   exit_status>>

\* terminate_processes_using_file(image_path) and `successfully_processed = False`.
TerminateProcessesUsingFile ==
    /\ pc = "lock"
    /\ \/ /\ platform = "Other"
          /\ pc' = "open"
          /\ UNCHANGED <<terminated, exc, failed_step>>
       \/ /\ platform = "DarwinNoLsof"
          /\ Escape("FileNotFoundError")
          /\ failed_step' = "lock"
          /\ UNCHANGED terminated
       \/ /\ platform \in {"Darwin", "Windows"}
          /\ \E holders \in SUBSET Pids : \E killed \in SUBSET holders :
                terminated' = terminated \cup killed
          /\ pc' = "open"
          /\ UNCHANGED <<exc, failed_step>>
    /\ successfully_processed' = FALSE
    /\ UNCHANGED <<api_key, auxVars, steps_done, logVars, result, response, first_listing, runs, directory, gen_prompt, readers, strategy, filtered_image_files, idx, processed_count, unprocessed_count,
                   temp_image_path, dst_kind, dst_dir_exists, srcDisk, dstDisk, tempDisk,
                   dstBak, tmpBak, platform, credential, requests_sent, image_caption,
                   csv_exists, csv_rows, outcome, summaries, exit_status, made_dir>>

OpenSource ==
    /\ pc = "open"
    /\ \/ pc' = "temp" /\ UNCHANGED <<exc, outcome, failed_step>>
       \/ RaiseInTry("OSError", "open")
    /\ UNCHANGED <<api_key, auxVars, steps_done, logVars, result, response, first_listing, runs, directory, gen_prompt, readers, strategy, filtered_image_files, idx, processed_count, unprocessed_count,
                   successfully_processed, temp_image_path, dst_kind, dst_dir_exists, srcDisk,
                   dstDisk, tempDisk, dstBak, tmpBak, platform, terminated, credential,
                   requests_sent, image_caption, csv_exists, csv_rows, summaries, exit_status,
                   made_dir>>

CreateTemp ==
    /\ pc = "temp"
    /\ \/ /\ temp_image_path' = idx
          /\ tempDisk' = [tempDisk EXCEPT ![idx] = "empty"]
          /\ pc' = "copy"
          /\ UNCHANGED <<exc, outcome, failed_step>>
       \/ /\ RaiseInTry("OSError", "temp")
          /\ UNCHANGED <<temp_image_path, tempDisk>>
    /\ UNCHANGED <<api_key, auxVars, steps_done, logVars, result, response, first_listing, runs, directory, gen_prompt, readers, strategy, filtered_image_files, idx, processed_count, unprocessed_count,
                   successfully_processed, dst_kind, dst_dir_exists, srcDisk, dstDisk, dstBak,
                   tmpBak, platform, terminated, credential, requests_sent, image_caption,
                   csv_exists, csv_rows, summaries, exit_status, made_dir>>

CopyToTemp ==
    /\ pc = "copy"
    /\ \/ /\ tempDisk' = [tempDisk EXCEPT ![idx] = srcDisk[idx]]
          /\ pc' = "load"
          /\ UNCHANGED <<exc, outcome, failed_step>>
       \/ /\ tempDisk' = [tempDisk EXCEPT ![idx] = "partial"]
          /\ RaiseInTry("OSError", "copy")
    /\ UNCHANGED <<api_key, auxVars, steps_done, logVars, result, response, first_listing, runs, directory, gen_prompt, readers, strategy, filtered_image_files, idx, processed_count, unprocessed_count,
                   successfully_processed, temp_image_path, dst_kind, dst_dir_exists, srcDisk,
                   dstDisk, dstBak, tmpBak, platform, terminated, credential, requests_sent,
                   image_caption, csv_exists, csv_rows, summaries, exit_status, made_dir>>

\* IPTCInfo(temp_image_path), with IPTCInfo(None) when that raises.
LoadContainer ==
    /\ pc = "load"
    /\ \/ pc' = "caption" /\ UNCHANGED <<exc, outcome, failed_step>>
       \/ RaiseInTry("ValueError", "load")
    /\ UNCHANGED <<api_key, auxVars, steps_done, logVars, result, response, first_listing, runs, directory, gen_prompt, readers, strategy, filtered_image_files, idx, processed_count, unprocessed_count,
                   successfully_processed, temp_image_path, dst_kind, dst_dir_exists, srcDisk,
                   dstDisk, tempDisk, dstBak, tmpBak, platform, terminated, credential,
                   requests_sent, image_caption, csv_exists, csv_rows, summaries, exit_status,
                   made_dir>>

\* get_metadata(temp_image_path): both readers catch their own failures.
GetCaption ==
    /\ pc = "caption"
    /\ \E iptc \in ReaderOutcomes, xmp \in ReaderOutcomes :
          /\ readers' = [iptc |-> iptc, xmp |-> xmp]
          /\ image_caption' = GetMetadata(iptc, xmp)
    /\ StepsDone(<<"caption">>)
    /\ pc' = "service"
    /\ UNCHANGED <<api_key, auxVars, logVars, result, response, first_listing, runs, directory, gen_prompt, strategy, filtered_image_files, idx, processed_count, unprocessed_count,
                   successfully_processed, temp_image_path, exc, dst_kind, dst_dir_exists,
                   srcDisk, dstDisk, tempDisk, dstBak, tmpBak, platform, terminated,
                   credential, requests_sent, csv_exists, csv_rows, outcome, failed_step,
                   summaries, exit_status, made_dir>>

\* The caption appended to the prompt whatever it is.
GenPromptAlwaysContext(caption) == "prompt+context"

\* gen_prompt in process_photo: the caption is appended to the prompt when it is truthy.
GenPrompt(caption) == IF Truthy(caption) THEN "prompt+context" ELSE "prompt"

\* parse_response(image_file, prompt, image_caption): process_photo, then the parser.
CallParseResponseFrom(bodies) ==
    /\ pc = "service"
    /\ IF ReadApiKey(credential) = "SystemExit"
       THEN /\ exit_status' = 1
            /\ RaiseInTry("SystemExit", "credential")
            /\ UNCHANGED <<requests_sent, gen_prompt, response, result, steps_done, api_key>>
       ELSE /\ gen_prompt' = GenPrompt(image_caption)
            /\ requests_sent' = requests_sent + 1
            /\ api_key' = ReadApiKey(credential)
            /\ UNCHANGED exit_status
            /\ \/ \E e \in ServiceFailures :
                     RaiseInTry(e, "service") /\ UNCHANGED <<response, result, steps_done>>
               \/ \E body \in bodies :
                     /\ response' = body
                     /\ result' = ParseResponse(body)
                     /\ StepsDone(IF result'.status = "ParseError"
                                  THEN <<"service">> ELSE <<"service", "parse">>)
                     /\ IF result'.status = "ParseError"
                        THEN RaiseInTry("ParseError", "parse")
                        ELSE pc' = "persist" /\ UNCHANGED <<exc, outcome, failed_step>>
    /\ UNCHANGED <<auxVars, logVars, first_listing, runs, directory, readers, strategy, filtered_image_files, idx, processed_count, unprocessed_count,
                   successfully_processed, temp_image_path, dst_kind, dst_dir_exists, srcDisk,
                   dstDisk, tempDisk, dstBak, tmpBak, platform, terminated, credential,
                   image_caption, csv_exists, csv_rows, summaries, made_dir>>

\* The service call of an ordinary batch.
CallParseResponse == CallParseResponseFrom(Responses)

\* The service call when the service may answer with any response body.
CallParseAnyResponse == CallParseResponseFrom(AllResponses)

\* The four field assignments and info.save_as(temp_image_path), which keeps the
\* previous file as temp_image_path + '~'.
Persist ==
    /\ pc = "persist"
    /\ \/ /\ tempDisk' = [tempDisk EXCEPT ![idx] = "new"]
          /\ tmpBak' = [tmpBak EXCEPT ![idx] = TRUE]
          /\ pc' = "move"
          /\ UNCHANGED <<exc, outcome, failed_step>>
       \/ /\ tempDisk' = [tempDisk EXCEPT ![idx] = "partial"]
          /\ UNCHANGED tmpBak
          /\ RaiseInTry("OSError", "persist")
    /\ UNCHANGED <<api_key, auxVars, steps_done, logVars, result, response, first_listing, runs, directory, gen_prompt, readers, strategy, filtered_image_files, idx, processed_count, unprocessed_count,
                   successfully_processed, temp_image_path, dst_kind, dst_dir_exists, srcDisk,
                   dstDisk, dstBak, platform, terminated, credential, requests_sent,
                   image_caption, csv_exists, csv_rows, summaries, exit_status, made_dir>>

\* shutil.move(temp_image_path, destination_path): os.rename, and when os.rename
\* raises OSError (another volume, destination in use) a copy onto the destination
\* followed by the removal of the temp file.
Move ==
    /\ pc = "move"
    /\ \/ /\ SetDest(idx, tempDisk[idx])
          /\ tempDisk' = [tempDisk EXCEPT ![idx] = "none"]
          /\ pc' = "moved"
          /\ StepsDone(<<"commit">>)
          /\ UNCHANGED <<exc, outcome, failed_step>>
       \/ /\ SetDest(idx, "partial")
          /\ pc' = "copying"
          /\ UNCHANGED <<tempDisk, exc, outcome, failed_step, steps_done>>
       \/ /\ RaiseInTry("OSError", "move")
          /\ UNCHANGED <<srcDisk, dstDisk, tempDisk, steps_done>>
    /\ UNCHANGED <<api_key, auxVars, logVars, result, response, first_listing, runs, directory, gen_prompt, readers, strategy, filtered_image_files, idx, processed_count, unprocessed_count,
                   successfully_processed, temp_image_path, dst_kind, dst_dir_exists, dstBak,
                   tmpBak, platform, terminated, credential, requests_sent, image_caption,
                   csv_exists, csv_rows, summaries, exit_status, made_dir>>

\* The copy of shutil.move's fallback, under way: it completes or is interrupted.
MoveCopy ==
    /\ pc = "copying"
    /\ \/ /\ SetDest(idx, tempDisk[idx])
          /\ tempDisk' = [tempDisk EXCEPT ![idx] = "none"]
          /\ pc' = "moved"
          /\ StepsDone(<<"commit">>)
          /\ UNCHANGED <<exc, outcome, failed_step>>
       \/ /\ RaiseInTry("OSError", "move")
          /\ UNCHANGED <<srcDisk, dstDisk, tempDisk, steps_done>>
    /\ UNCHANGED <<api_key, auxVars, logVars, result, response, first_listing, runs, directory, gen_prompt, readers, strategy, filtered_image_files, idx, processed_count, unprocessed_count,
                   successfully_processed, temp_image_path, dst_kind, dst_dir_exists, dstBak,
                   tmpBak, platform, terminated, credential, requests_sent, image_caption,
                   csv_exists, csv_rows, summaries, exit_status, made_dir>>

\* The increment left out.
ProcessedAfterMoveForgotten(count) == count

\* `processed_count += 1`
ProcessedAfterMove(count) == count + 1

\* `processed_count += 1` and `successfully_processed = True`
RecordSuccess ==
    /\ pc = "moved"
    /\ processed_count' = ProcessedAfterMove(processed_count)
    /\ successfully_processed' = TRUE
    /\ outcome' = [outcome EXCEPT ![idx] = "ok"]
    /\ StepsDone(<<"record">>)
    /\ pc' = "finally"
    /\ UNCHANGED <<api_key, auxVars, logVars, result, response, first_listing, runs, directory, gen_prompt, readers, strategy, filtered_image_files, idx, unprocessed_count, temp_image_path,
                   exc, dst_kind, dst_dir_exists, srcDisk, dstDisk, tempDisk, dstBak, tmpBak,
                   platform, terminated, credential, requests_sent, image_caption, csv_exists,
                   csv_rows, failed_step, summaries, exit_status, made_dir>>

\* The finally clause: remove_backup_file(destination_path), then the removal of the
\* temp file named by temp_image_path; an exception raised here replaces the one in
\* flight, and an exception still in flight after it leaves the method.
Cleanup ==
    /\ pc = "finally"
    /\ dstBak' = [dstBak EXCEPT ![idx] = FALSE]
    /\ IF temp_image_path = 0
       THEN /\ Escape("UnboundLocalError")
            /\ failed_step' = "cleanup"
            /\ UNCHANGED tempDisk
       ELSE \/ /\ tempDisk' = [tempDisk EXCEPT ![temp_image_path] = "none"]
               /\ IF exc = "none"
                  THEN pc' = "delete" /\ UNCHANGED exc
                  ELSE Escape(exc)
               /\ UNCHANGED failed_step
            \/ /\ tempDisk[temp_image_path] # "none"
               /\ Escape("OSError")
               /\ failed_step' = "cleanup"
               /\ UNCHANGED tempDisk
    /\ UNCHANGED <<api_key, auxVars, steps_done, logVars, result, response, first_listing, runs, directory, gen_prompt, readers, strategy, filtered_image_files, idx, processed_count, unprocessed_count,
                   successfully_processed, temp_image_path, dst_kind, dst_dir_exists, srcDisk,
                   dstDisk, tmpBak, platform, terminated, credential, requests_sent,
                   image_caption, csv_exists, csv_rows, outcome, summaries, exit_status,
                   made_dir>>

\* `if successfully_processed and image_path != destination_path: os.remove(image_path)`
RemoveOriginal ==
    /\ pc = "delete"
    /\ IF successfully_processed /\ PathsDiffer
       THEN \/ /\ srcDisk' = [srcDisk EXCEPT ![idx] = "none"]
               /\ pc' = "loop"
               /\ UNCHANGED <<exc, failed_step>>
            \/ /\ Escape("OSError")
               /\ failed_step' = "delete"
               /\ UNCHANGED srcDisk
       ELSE /\ pc' = "loop"
            /\ UNCHANGED <<srcDisk, exc, failed_step>>
    /\ UNCHANGED <<api_key, auxVars, steps_done, logVars, result, response, first_listing, runs, directory, gen_prompt, readers, strategy, filtered_image_files, idx, processed_count, unprocessed_count,
                   successfully_processed, temp_image_path, dst_kind, dst_dir_exists, dstDisk,
                   tempDisk, dstBak, tmpBak, platform, terminated, credential, requests_sent,
                   image_caption, csv_exists, csv_rows, outcome, summaries, exit_status,
                   made_dir>>

\* unprocessed_count and execution_timer(...), in both strategies.
Report ==
    /\ pc = "report"
    /\ unprocessed_count' = UnprocessedCount(Len(filtered_image_files), processed_count)
    /\ summaries' = summaries + 1
    /\ pc' = "Done"
    /\ UNCHANGED <<api_key, auxVars, steps_done, logVars, result, response, first_listing, runs, directory, gen_prompt, readers, strategy, filtered_image_files, idx, processed_count,
                   successfully_processed, temp_image_path, exc, dst_kind, dst_dir_exists,
                   srcDisk, dstDisk, tempDisk, dstBak, tmpBak, platform, terminated,
                   credential, requests_sent, image_caption, csv_exists, csv_rows, outcome,
                   failed_step, exit_status, made_dir>>


(***************************************************************************)
(* Ledger strategy: CSVGenerator.write_data_to_csv                         *)
(***************************************************************************)

\* An exception e raised inside the try block of the ledger loop: the loop's except
\* clause, then the except clause around the file, then out of the method.
RaiseInCsvLoop(e, s) ==
    /\ failed_step' = s
    /\ outcome' = [outcome EXCEPT ![idx] =
                      IF e = "SystemExit" THEN "fatal"
                      ELSE IF e = "ConnectionError" THEN "unreachable" ELSE "failed"]
    /\ IF CaughtByExceptException(e)
       THEN pc' = "loop" /\ UNCHANGED exc
       ELSE Escape(e)

\* os.makedirs(dst_path), open(csv_filepath, 'w') and the header row; a failure is
\* logged by the outer except clause, which returns.
CsvOpen ==
    /\ pc = "csv_open"
    /\ dst_dir_exists' = TRUE
    /\ made_dir' = ~dst_dir_exists
    /\ \/ /\ csv_exists' = TRUE
          /\ pc' = "loop"
          /\ UNCHANGED failed_step
       \/ /\ pc' = "Returned"
          /\ failed_step' = "csv_open"
          /\ UNCHANGED csv_exists
    /\ UNCHANGED <<api_key, auxVars, steps_done, logVars, result, response, first_listing, runs, directory, gen_prompt, readers, strategy, filtered_image_files, idx, processed_count, unprocessed_count,
                   successfully_processed, temp_image_path, exc, dst_kind, srcDisk, dstDisk,
                   tempDisk, dstBak, tmpBak, platform, terminated, credential, requests_sent,
                   image_caption, csv_rows, outcome, summaries, exit_status>>

CsvNextItem ==
    /\ pc = "loop"
    /\ strategy = "ledger"
    /\ IF idx < Len(filtered_image_files)
       THEN /\ idx' = idx + 1
            /\ pc' = "l_open"
       ELSE /\ pc' = "report"
            /\ UNCHANGED idx
    /\ failed_step' = "none"
    /\ image_caption' = "unset"
    /\ readers' = [iptc |-> "unset", xmp |-> "unset"]
    /\ gen_prompt' = "unset"
    /\ response' = NoResponse
    /\ result' = NoResult
    /\ steps_done' = IF idx < Len(filtered_image_files) THEN <<>> ELSE steps_done
    /\ UNCHANGED <<api_key, auxVars, logVars, first_listing, runs, directory, strategy, filtered_image_files, processed_count, unprocessed_count,
                   successfully_processed, temp_image_path, exc, dst_kind, dst_dir_exists,
                   srcDisk, dstDisk, tempDisk, dstBak, tmpBak, platform, terminated,
                   credential, requests_sent, csv_exists, csv_rows, outcome, summaries,
                   exit_status, made_dir>>

\* The image opened with mode 'wb', which truncates the file.
OpenImageFileForWriting(content) == "empty"

\* open(image_path, 'rb'): the file's bytes after it has been opened for reading
OpenImageFile(content) == content

CsvOpenImage ==
    /\ pc = "l_open"
    /\ \/ /\ pc' = "l_caption"
          /\ srcDisk' = [srcDisk EXCEPT ![idx] = OpenImageFile(@)]
          /\ UNCHANGED <<exc, outcome, failed_step>>
       \/ RaiseInCsvLoop("OSError", "open") /\ UNCHANGED srcDisk
    /\ UNCHANGED <<api_key, auxVars, steps_done, logVars, result, response, first_listing, runs, directory, gen_prompt, readers, strategy, filtered_image_files, idx, processed_count, unprocessed_count,
                   successfully_processed, temp_image_path, dst_kind, dst_dir_exists,
                   dstDisk, tempDisk, dstBak, tmpBak, platform, terminated, credential,
                   requests_sent, image_caption, csv_exists, csv_rows, summaries, exit_status,
                   made_dir>>

\* get_metadata(image_path)
CsvGetCaption ==
    /\ pc = "l_caption"
    /\ \E iptc \in ReaderOutcomes, xmp \in ReaderOutcomes :
          /\ readers' = [iptc |-> iptc, xmp |-> xmp]
          /\ image_caption' = GetMetadata(iptc, xmp)
    /\ StepsDone(<<"caption">>)
    /\ pc' = "l_service"
    /\ UNCHANGED <<api_key, auxVars, logVars, result, response, first_listing, runs, directory, gen_prompt, strategy, filtered_image_files, idx, processed_count, unprocessed_count,
                   successfully_processed, temp_image_path, exc, dst_kind, dst_dir_exists,
                   srcDisk, dstDisk, tempDisk, dstBak, tmpBak, platform, terminated,
                   credential, requests_sent, csv_exists, csv_rows, outcome, failed_step,
                   summaries, exit_status, made_dir>>

\* parse_response(image_file, prompt, image_caption)
CsvCallParseResponseFrom(bodies) ==
    /\ pc = "l_service"
    /\ IF ReadApiKey(credential) = "SystemExit"
       THEN /\ exit_status' = 1
            /\ RaiseInCsvLoop("SystemExit", "credential")
            /\ UNCHANGED <<requests_sent, gen_prompt, response, result, steps_done, api_key>>
       ELSE /\ gen_prompt' = GenPrompt(image_caption)
            /\ requests_sent' = requests_sent + 1
            /\ api_key' = ReadApiKey(credential)
            /\ UNCHANGED exit_status
            /\ \/ \E e \in ServiceFailures :
                     RaiseInCsvLoop(e, "service") /\ UNCHANGED <<response, result, steps_done>>
               \/ \E body \in bodies :
                     /\ response' = body
                     /\ result' = ParseResponse(body)
                     /\ StepsDone(IF result'.status = "ParseError"
                                  THEN <<"service">> ELSE <<"service", "parse">>)
                     /\ IF result'.status = "ParseError"
                        THEN RaiseInCsvLoop("ParseError", "parse")
                        ELSE pc' = "l_write" /\ UNCHANGED <<exc, outcome, failed_step>>
    /\ UNCHANGED <<auxVars, logVars, first_listing, runs, directory, readers, strategy, filtered_image_files, idx, processed_count, unprocessed_count,
                   successfully_processed, temp_image_path, dst_kind, dst_dir_exists, srcDisk,
                   dstDisk, tempDisk, dstBak, tmpBak, platform, terminated, credential,
                   image_caption, csv_exists, csv_rows, summaries, made_dir>>

\* The service call of an ordinary ledger batch.
CsvCallParseResponse == CsvCallParseResponseFrom(Responses)

\* The ledger's service call when the service may answer with any response body.
CsvCallParseAnyResponse == CsvCallParseResponseFrom(AllResponses)

\* The `processed_count += 1` after writer.writerow left out.
ProcessedAfterRowForgotten(count) == count

\* `processed_count += 1` after writer.writerow
ProcessedAfterRow(count) == count + 1

\* writer.writerow([...]) and `processed_count += 1`
CsvWriteRow ==
    /\ pc = "l_write"
    /\ \/ /\ csv_rows' = csv_rows + 1
          /\ processed_count' = ProcessedAfterRow(processed_count)
          /\ outcome' = [outcome EXCEPT ![idx] = "ok"]
          /\ StepsDone(<<"commit", "record">>)
          /\ pc' = "loop"
          /\ UNCHANGED <<exc, failed_step>>
       \/ /\ RaiseInCsvLoop("OSError", "write")
          /\ UNCHANGED <<csv_rows, processed_count, steps_done>>
    /\ UNCHANGED <<api_key, auxVars, logVars, result, response, first_listing, runs, directory, gen_prompt, readers, strategy, filtered_image_files, idx, unprocessed_count,
                   successfully_processed, temp_image_path, dst_kind, dst_dir_exists, srcDisk,
                   dstDisk, tempDisk, dstBak, tmpBak, platform, terminated, credential,
                   requests_sent, image_caption, csv_exists, summaries, exit_status, made_dir>>

Next ==
    \/ Discover
    \/ NextItem
    \/ EnsureDestinationDir
    \/ TerminateProcessesUsingFile
    \/ OpenSource
    \/ CreateTemp
    \/ CopyToTemp
    \/ LoadContainer
    \/ GetCaption
    \/ CallParseResponse
    \/ Persist
    \/ Move
    \/ MoveCopy
    \/ RecordSuccess
    \/ Cleanup
    \/ RemoveOriginal
    \/ Report
    \/ CsvOpen
    \/ CsvNextItem
    \/ CsvOpenImage
    \/ CsvGetCaption
    \/ CsvCallParseResponse
    \/ CsvWriteRow

Spec == Init /\ [][Next]_vars

\* Another batch is started on the same folder once the previous one has listed it.
RunAgain ==
    /\ pc \in {"csv_open", "FatalAbort"}
    /\ runs < MaxRuns
    /\ pc' = "start"
    /\ filtered_image_files' = <<>>
    /\ exit_status' = 0
    /\ UNCHANGED <<api_key, auxVars, steps_done, logVars, result, response, first_listing, runs, directory, gen_prompt, readers,
                   strategy, idx, processed_count, unprocessed_count, successfully_processed,
                   temp_image_path, exc, dst_kind, dst_dir_exists, srcDisk, dstDisk,
                   tempDisk, dstBak, tmpBak, platform, terminated, credential,
                   requests_sent, image_caption, csv_exists, csv_rows, outcome,
                   failed_step, summaries, made_dir>>

\* A batch on a fresh destination folder, with a readable credential.
ParserInit ==
    /\ InitBatch
    /\ platform = "Other"
    /\ credential.exists /\ Len(credential.fields) = 2
    /\ dst_kind = "other" /\ dst_dir_exists /\ dstDisk[1] = "none" /\ ~dstBak[1]
    /\ \E n \in 1..MaxParsedFiles : directory = StockDirectory(n)

ParserNext ==
    \/ Discover
    \/ NextItem
    \/ EnsureDestinationDir
    \/ TerminateProcessesUsingFile
    \/ OpenSource
    \/ CreateTemp
    \/ CopyToTemp
    \/ LoadContainer
    \/ GetCaption
    \/ CallParseAnyResponse
    \/ Persist
    \/ Move
    \/ MoveCopy
    \/ RecordSuccess
    \/ Cleanup
    \/ RemoveOriginal
    \/ Report
    \/ CsvOpen
    \/ CsvNextItem
    \/ CsvOpenImage
    \/ CsvGetCaption
    \/ CsvCallParseAnyResponse
    \/ CsvWriteRow

\* Both strategies with a service that may answer with any response body.
ParserSpec == ParserInit /\ [][ParserNext]_vars

(***************************************************************************)
(* Lock Releaser, step by step: check_access.terminate_processes_using_file *)
(***************************************************************************)

\* What the enumeration can return: lsof prints one line per open descriptor and
\* psutil lists one entry per open file, so a pid can be listed more than once.
HolderLists == UNION {[1..n -> Pids] : n \in 0..MaxHolders}

\* What terminate_process(pid) can do: psutil.Process(pid) raises NoSuchProcess,
\* process.terminate() raises AccessDenied, or the signal is sent.
TerminateOutcomes == {"NoSuchProcess", "AccessDenied", "sent"}

\* The loop over processes without the pause.
SleepSkipped(events, k) == events

\* `time.sleep(1)` after terminate_process returned for the k-th entry.
Sleep(events, k) == Append(events, <<"pause", k>>)

\* get_processes_using_file_mac / get_processes_using_file_windows
GetProcessesUsingFile ==
    /\ pc = "lock"
    /\ platform \in {"Darwin", "Windows"}
    /\ processes' \in HolderLists
    /\ proc_idx' = 0
    /\ lock_events' = <<>>
    /\ pc' = "lock_loop"
    /\ UNCHANGED <<successfully_processed, exc, failed_step, terminated>>
    /\ UNCHANGED <<outsideLock, api_key, steps_done, logVars, result, response, first_listing, runs, directory,
                   gen_prompt, readers, strategy, filtered_image_files, idx, processed_count,
                   unprocessed_count, temp_image_path, dst_kind, dst_dir_exists, srcDisk,
                   dstDisk, tempDisk, dstBak, tmpBak, platform, credential, requests_sent,
                   image_caption, csv_exists, csv_rows, outcome, summaries, exit_status,
                   made_dir>>

\* `for proc in processes`, and `successfully_processed = False` once the loop is over.
NextProcess ==
    /\ pc = "lock_loop"
    /\ IF proc_idx < Len(processes)
       THEN /\ proc_idx' = proc_idx + 1
            /\ pc' = "terminate"
            /\ UNCHANGED successfully_processed
       ELSE /\ pc' = "open"
            /\ successfully_processed' = FALSE
            /\ UNCHANGED proc_idx
    /\ UNCHANGED <<processes, lock_events, exc, failed_step, terminated>>
    /\ UNCHANGED <<outsideLock, api_key, steps_done, logVars, result, response, first_listing, runs, directory,
                   gen_prompt, readers, strategy, filtered_image_files, idx, processed_count,
                   unprocessed_count, temp_image_path, dst_kind, dst_dir_exists, srcDisk,
                   dstDisk, tempDisk, dstBak, tmpBak, platform, credential, requests_sent,
                   image_caption, csv_exists, csv_rows, outcome, summaries, exit_status,
                   made_dir>>

\* terminate_process(pid) up to process.terminate(): a process this batch has
\* terminated no longer exists; any other may have exited, may refuse the signal
\* or receives it.
TerminateProcess ==
    /\ pc = "terminate"
    /\ \E o \in TerminateOutcomes :
          /\ processes[proc_idx] \in terminated => o = "NoSuchProcess"
          /\ IF o = "sent"
             THEN /\ lock_events' = Append(lock_events, <<"signal", proc_idx>>)
                  /\ pc' = "wait"
             ELSE /\ pc' = "sleep"
                  /\ UNCHANGED lock_events
    /\ UNCHANGED <<processes, proc_idx, successfully_processed, exc, failed_step,
                   terminated>>
    /\ UNCHANGED <<outsideLock, api_key, steps_done, logVars, result, response, first_listing, runs, directory,
                   gen_prompt, readers, strategy, filtered_image_files, idx, processed_count,
                   unprocessed_count, temp_image_path, dst_kind, dst_dir_exists, srcDisk,
                   dstDisk, tempDisk, dstBak, tmpBak, platform, credential, requests_sent,
                   image_caption, csv_exists, csv_rows, outcome, summaries, exit_status,
                   made_dir>>

\* process.wait() returns when the process has exited.
WaitProcess ==
    /\ pc = "wait"
    /\ terminated' = terminated \cup {processes[proc_idx]}
    /\ lock_events' = Append(lock_events, <<"wait", proc_idx>>)
    /\ pc' = "sleep"
    /\ UNCHANGED <<processes, proc_idx, successfully_processed, exc, failed_step>>
    /\ UNCHANGED <<outsideLock, api_key, steps_done, logVars, result, response, first_listing, runs, directory,
                   gen_prompt, readers, strategy, filtered_image_files, idx, processed_count,
                   unprocessed_count, temp_image_path, dst_kind, dst_dir_exists, srcDisk,
                   dstDisk, tempDisk, dstBak, tmpBak, platform, credential, requests_sent,
                   image_caption, csv_exists, csv_rows, outcome, summaries, exit_status,
                   made_dir>>

\* `time.sleep(1)`, whatever terminate_process did.
SleepAfterTerminate ==
    /\ pc = "sleep"
    /\ lock_events' = Sleep(lock_events, proc_idx)
    /\ pc' = "lock_loop"
    /\ UNCHANGED <<processes, proc_idx, successfully_processed, exc, failed_step,
                   terminated>>
    /\ UNCHANGED <<outsideLock, api_key, steps_done, logVars, result, response, first_listing, runs, directory,
                   gen_prompt, readers, strategy, filtered_image_files, idx, processed_count,
                   unprocessed_count, temp_image_path, dst_kind, dst_dir_exists, srcDisk,
                   dstDisk, tempDisk, dstBak, tmpBak, platform, credential, requests_sent,
                   image_caption, csv_exists, csv_rows, outcome, summaries, exit_status,
                   made_dir>>

\* An embed batch on a platform whose holders can be enumerated, with a readable
\* credential and a fresh destination folder.
LockInit ==
    /\ InitBatch
    /\ strategy = "embed"
    /\ platform \in {"Darwin", "Windows"}
    /\ credential.exists /\ Len(credential.fields) = 2
    /\ dst_kind = "other" /\ dst_dir_exists /\ dstDisk[1] = "none" /\ ~dstBak[1]
    /\ \E n \in 1..MaxLockedFiles : directory = StockDirectory(n)

LockNext ==
    \/ Discover
    \/ NextItem
    \/ EnsureDestinationDir
    \/ GetProcessesUsingFile
    \/ NextProcess
    \/ TerminateProcess
    \/ WaitProcess
    \/ SleepAfterTerminate
    \/ OpenSource
    \/ CreateTemp
    \/ CopyToTemp
    \/ LoadContainer
    \/ GetCaption
    \/ CallParseResponse
    \/ Persist
    \/ Move
    \/ MoveCopy
    \/ RecordSuccess
    \/ Cleanup
    \/ RemoveOriginal
    \/ Report

\* The embed strategy with the Lock Releaser followed step by step.
LockSpec == LockInit /\ [][LockNext]_vars

(***************************************************************************)
(* Batches running at the same time: confirm_and_run starts one worker     *)
(* thread per RUN, and the threads share the process and the folder        *)
(***************************************************************************)

Workers == 1..MaxWorkers

\* The processes that can hold an image of the shared folder open: another program,
\* and the application itself through the file object of one of its threads.
Holders == {"viewer", "app"}

\* The images of the shared folder.
SharedFiles == FilterFilesByExtension(directory)

\* A thread of the application has image i open: it is inside the
\* `with open(image_path, 'rb')` block of its loop.
AppHolds(i) == \E w \in Workers : thread_pc[w] = "reading" /\ thread_idx[w] = i

\* The processes that have image i open.
HoldersOf(i) ==
    (IF i \in viewer_open THEN {"viewer"} ELSE {}) \cup (IF AppHolds(i) THEN {"app"} ELSE {})

\* The lists of the members of set S, in any order.
Orderings(S) ==
    {l \in [1..Cardinality(S) -> S] : \A i, j \in 1..Cardinality(S) : l[i] = l[j] => i = j}

\* RUN confirmed: `threading.Thread(target=self.run_with_logger, ...).start()`,
\* whether or not another worker thread is running, and discovery in the new thread.
ConfirmAndRun(w) ==
    /\ ~app_signalled
    /\ thread_callback[w] = "none"
    /\ \E s \in {"embed", "ledger"} : thread_callback' = [thread_callback EXCEPT ![w] = s]
    /\ thread_pc' = [thread_pc EXCEPT ![w] = "loop"]
    /\ UNCHANGED <<thread_idx, thread_processes, viewer_open, app_signalled>>
    /\ UNCHANGED <<outsideThreads, logVars, methodVars>>

\* `for image_name in filtered_image_files` of either strategy: the embed loop calls
\* the Lock Releaser first, the ledger loop opens the image at once.
ThreadNextItem(w) ==
    /\ ~app_signalled
    /\ thread_pc[w] = "loop"
    /\ IF thread_idx[w] < Len(SharedFiles)
       THEN /\ thread_idx' = [thread_idx EXCEPT ![w] = @ + 1]
            /\ thread_pc' = [thread_pc EXCEPT ![w] =
                                IF thread_callback[w] = "embed" THEN "lock" ELSE "open"]
       ELSE /\ thread_pc' = [thread_pc EXCEPT ![w] = "done"]
            /\ UNCHANGED thread_idx
    /\ UNCHANGED <<thread_callback, thread_processes, viewer_open, app_signalled>>
    /\ UNCHANGED <<outsideThreads, logVars, methodVars>>

\* get_processes_using_file_mac / get_processes_using_file_windows in thread w: the
\* list holds every process that has the file open, the calling process included.
ThreadGetProcesses(w) ==
    /\ ~app_signalled
    /\ thread_pc[w] = "lock"
    /\ \E l \in Orderings(HoldersOf(thread_idx[w])) :
          thread_processes' = [thread_processes EXCEPT ![w] = l]
    /\ thread_pc' = [thread_pc EXCEPT ![w] = "terminate"]
    /\ UNCHANGED <<thread_callback, thread_idx, viewer_open, app_signalled>>
    /\ UNCHANGED <<outsideThreads, logVars, methodVars>>

\* One turn of `for proc in processes: terminate_process(proc['pid'])` in thread w:
\* the other program exits or refuses the signal; the application's own pid is a
\* process the caller may always signal.
ThreadTerminateProcess(w) ==
    /\ ~app_signalled
    /\ thread_pc[w] = "terminate"
    /\ IF thread_processes[w] = <<>>
       THEN /\ thread_pc' = [thread_pc EXCEPT ![w] = "open"]
            /\ UNCHANGED <<thread_processes, viewer_open, app_signalled>>
       ELSE /\ thread_processes' = [thread_processes EXCEPT ![w] = Tail(@)]
            /\ IF Head(thread_processes[w]) = "app"
               THEN app_signalled' = TRUE /\ UNCHANGED viewer_open
               ELSE /\ \/ viewer_open' = {}
                       \/ UNCHANGED viewer_open
                    /\ UNCHANGED app_signalled
            /\ UNCHANGED thread_pc
    /\ UNCHANGED <<thread_callback, thread_idx>>
    /\ UNCHANGED <<outsideThreads, logVars, methodVars>>

\* `with open(image_path, 'rb') as image_file:` entered by thread w; a failure to
\* open is caught and the loop goes on.
ThreadOpenImage(w) ==
    /\ ~app_signalled
    /\ thread_pc[w] = "open"
    /\ \/ thread_pc' = [thread_pc EXCEPT ![w] = "reading"]
       \/ thread_pc' = [thread_pc EXCEPT ![w] = "loop"]
    /\ UNCHANGED <<thread_callback, thread_idx, thread_processes, viewer_open,
                   app_signalled>>
    /\ UNCHANGED <<outsideThreads, logVars, methodVars>>

\* The with block left by thread w, normally or by an exception: the file is closed.
ThreadCloseImage(w) ==
    /\ ~app_signalled
    /\ thread_pc[w] = "reading"
    /\ thread_pc' = [thread_pc EXCEPT ![w] = "loop"]
    /\ UNCHANGED <<thread_callback, thread_idx, thread_processes, viewer_open,
                   app_signalled>>
    /\ UNCHANGED <<outsideThreads, logVars, methodVars>>

\* Another program opens an image of the folder.
ViewerOpens ==
    /\ ~app_signalled
    /\ \E i \in 1..Len(SharedFiles) : i \notin viewer_open /\ viewer_open' = viewer_open \cup {i}
    /\ UNCHANGED <<thread_callback, thread_pc, thread_idx, thread_processes, app_signalled>>
    /\ UNCHANGED <<outsideThreads, logVars, methodVars>>

\* The application on a platform whose holders can be enumerated, no batch started.
ThreadsInit ==
    /\ InitBatch
    /\ strategy = "embed"
    /\ platform \in {"Darwin", "Windows"}
    /\ credential.exists /\ Len(credential.fields) = 2
    /\ dst_kind = "other" /\ dst_dir_exists /\ dstDisk[1] = "none" /\ ~dstBak[1]
    /\ \E n \in 1..MaxSharedFiles : directory = StockDirectory(n)

ThreadsNext ==
    \/ \E w \in Workers : ConfirmAndRun(w)
    \/ \E w \in Workers : ThreadNextItem(w)
    \/ \E w \in Workers : ThreadGetProcesses(w)
    \/ \E w \in Workers : ThreadTerminateProcess(w)
    \/ \E w \in Workers : ThreadOpenImage(w)
    \/ \E w \in Workers : ThreadCloseImage(w)
    \/ ViewerOpens

\* Up to MaxWorkers batches started by RUN on the same folder, interleaved.
ThreadsSpec == ThreadsInit /\ [][ThreadsNext]_vars

(***************************************************************************)
(* Input windows: _create_add_metadata_window, _create_generate_csv_window, *)
(* confirm_and_run, run_add_metadata, run_generate_csv                     *)
(***************************************************************************)

\* Texts of a prompt field; "" is the empty field.
PromptTexts == {"", "p", "q"}

\* Values of a folder variable; "" is nothing selected.
Folders == {"", "s"}

\* The window whose widgets the attributes name can be read: prompt_entry.get raises
\* TclError once its window is destroyed.
Readable == bound_fields # "none" /\ windows[bound_fields].exists

\* `self.prompt_entry.get(...)`, `self.src_folder_path.get()`,
\* `self.dst_folder_path.get()`: the attributes name the widgets of the window that
\* was created last.
FieldsRead == windows[bound_fields]

\* _create_add_metadata_window / _create_generate_csv_window when the window does
\* not exist: new widgets, the saved prompt loaded, and the three attributes rebound.
CreateWindow(x) ==
    /\ constructed = NoRun
    /\ ~windows[x].exists
    /\ windows' = [windows EXCEPT ![x] =
                      [exists |-> TRUE, prompt |-> prompt_msg, src |-> "", dst |-> ""]]
    /\ bound_fields' = x
    /\ UNCHANGED <<prompt_msg, confirmed, constructed>>
    /\ UNCHANGED <<outsideUi, logVars, methodVars>>

\* WM_DELETE_WINDOW of window x: save_prompt_message(current_window=x), whose
\* except clause catches the TclError of a destroyed prompt widget.
CloseWindow(x) ==
    /\ constructed = NoRun
    /\ windows[x].exists
    /\ prompt_msg' = IF Readable THEN windows[bound_fields].prompt ELSE prompt_msg
    /\ windows' = [windows EXCEPT ![x].exists = FALSE]
    /\ UNCHANGED <<bound_fields, confirmed, constructed>>
    /\ UNCHANGED <<outsideUi, logVars, methodVars>>

\* The user edits the prompt field of window x.
TypePrompt(x) ==
    /\ constructed = NoRun
    /\ windows[x].exists
    /\ \E t \in PromptTexts : windows' = [windows EXCEPT ![x].prompt = t]
    /\ UNCHANGED <<bound_fields, prompt_msg, confirmed, constructed>>
    /\ UNCHANGED <<outsideUi, logVars, methodVars>>

\* select_src_folder, from the button of window x: `self.src_folder_path.set(...)`
SelectSrcFolder(x) ==
    /\ constructed = NoRun
    /\ windows[x].exists
    /\ \E f \in Folders : windows' = [windows EXCEPT ![bound_fields].src = f]
    /\ UNCHANGED <<bound_fields, prompt_msg, confirmed, constructed>>
    /\ UNCHANGED <<outsideUi, logVars, methodVars>>

\* select_dst_folder, from the button of window x: `self.dst_folder_path.set(...)`
SelectDstFolder(x) ==
    /\ constructed = NoRun
    /\ windows[x].exists
    /\ \E f \in Folders : windows' = [windows EXCEPT ![bound_fields].dst = f]
    /\ UNCHANGED <<bound_fields, prompt_msg, confirmed, constructed>>
    /\ UNCHANGED <<outsideUi, logVars, methodVars>>

\* confirm_and_run, from the RUN button of window x: the fields are read and
\* validated, the dialog shows the folders, and on Yes the worker thread is started.
ConfirmAndRunFrom(x) ==
    /\ windows[x].exists
    /\ constructed = NoRun
    /\ IF ~Readable \/ FieldsRead.prompt = "" \/ FieldsRead.src = ""
       THEN UNCHANGED confirmed
       ELSE \/ confirmed' = [pressed |-> x, read_from |-> bound_fields,
                             prompt |-> FieldsRead.prompt, src |-> FieldsRead.src,
                             dst |-> FieldsRead.dst]
            \/ UNCHANGED confirmed
    /\ UNCHANGED <<windows, bound_fields, prompt_msg, constructed>>
    /\ UNCHANGED <<outsideUi, logVars, methodVars>>

\* run_add_metadata / run_generate_csv in the worker thread: the fields are read
\* again, the prompt is saved and the batch object is constructed; a destroyed
\* prompt widget ends the thread with TclError.
RunCallback ==
    /\ confirmed # NoRun
    /\ constructed = NoRun
    /\ IF Readable
       THEN /\ prompt_msg' = FieldsRead.prompt
            /\ constructed' = [pressed |-> confirmed.pressed, read_from |-> bound_fields,
                               prompt |-> FieldsRead.prompt,
                               src |-> FieldsRead.src,
                               dst |-> FieldsRead.dst]
            /\ UNCHANGED confirmed
       ELSE /\ confirmed' = NoRun
            /\ UNCHANGED <<prompt_msg, constructed>>
    /\ UNCHANGED <<windows, bound_fields>>
    /\ UNCHANGED <<outsideUi, logVars, methodVars>>

\* The application with its main window only.
UiInit ==
    /\ InitBatch
    /\ strategy = "ledger"
    /\ credential.exists /\ Len(credential.fields) = 2
    /\ dst_dir_exists /\ ~dstBak[1]
    /\ directory = StockDirectory(1)

UiNext ==
    \/ \E x \in InputWindows : CreateWindow(x)
    \/ \E x \in InputWindows : CloseWindow(x)
    \/ \E x \in InputWindows : TypePrompt(x)
    \/ \E x \in InputWindows : SelectSrcFolder(x)
    \/ \E x \in InputWindows : SelectDstFolder(x)
    \/ \E x \in InputWindows : ConfirmAndRunFrom(x)
    \/ RunCallback

\* Any sequence of actions of the user on the two input windows, up to the
\* construction of one batch.
UiSpec == UiInit /\ [][UiNext]_vars

(***************************************************************************)
(* Settings window: _create_app_settings_window, save_app_settings         *)
(***************************************************************************)

\* What the user can leave in the API key entry, stripped: nothing, or a key.
KeyEntries == {"", "key"}

\* `openai_file.write(f"{date}; {openai_key}")` on the file opened with mode 'w'.
WrittenCredential(openai_key) == [exists |-> TRUE, fields |-> <<"date", openai_key>>]

\* _create_app_settings_window when the window does not exist: a new, empty entry.
CreateAppSettingsWindow ==
    /\ ~app_settings_window
    /\ app_settings_window' = TRUE
    /\ openai_key_entry' = ""
    /\ UNCHANGED <<outsideSettings, logVars, methodVars>>

\* The user types into the API key entry.
TypeOpenaiKey ==
    /\ app_settings_window
    /\ \E k \in KeyEntries : openai_key_entry' = k
    /\ UNCHANGED app_settings_window
    /\ UNCHANGED <<outsideSettings, logVars, methodVars>>

\* save_app_settings: the error box for an empty key is followed by the write all
\* the same; the window is destroyed after the write, and a write that raises is
\* logged and leaves the window open and the file as open(..., 'w') made it.
SaveAppSettings ==
    /\ app_settings_window
    /\ \/ /\ credential' = WrittenCredential(openai_key_entry)
          /\ app_settings_window' = FALSE
       \/ /\ credential' \in {credential, [exists |-> TRUE, fields |-> <<>>]}
          /\ UNCHANGED app_settings_window
    /\ UNCHANGED openai_key_entry
    /\ UNCHANGED <<outsideSettings, logVars, api_key, steps_done, result, response,
                   first_listing, runs, directory, gen_prompt, readers, strategy, pc,
                   filtered_image_files, idx, processed_count, unprocessed_count,
                   successfully_processed, temp_image_path, exc, dst_kind, dst_dir_exists,
                   srcDisk, dstDisk, tempDisk, dstBak, tmpBak, platform, terminated,
                   requests_sent, image_caption, csv_exists, csv_rows, outcome,
                   failed_step, summaries, exit_status, made_dir>>

\* A ledger batch of one image on a fresh destination folder, with any stored
\* credential file and the settings window closed.
SettingsInit ==
    /\ InitBatch
    /\ strategy = "ledger"
    /\ dst_dir_exists /\ ~dstBak[1]
    /\ directory = StockDirectory(1)

SettingsNext ==
    \/ CreateAppSettingsWindow
    \/ TypeOpenaiKey
    \/ SaveAppSettings
    \/ Discover
    \/ CsvOpen
    \/ CsvNextItem
    \/ CsvOpenImage
    \/ CsvGetCaption
    \/ CsvCallParseResponse
    \/ CsvWriteRow
    \/ Report

\* The settings window used before and during a ledger batch.
SettingsSpec == SettingsInit /\ [][SettingsNext]_vars

(***************************************************************************)
(* Log sink: TextHandler and the processing-status window                  *)
(***************************************************************************)

\* Callbacks put in front of the pending ones.
AfterFirst(queue, callbacks) == callbacks \o queue

\* widget.after(2500, append): callbacks scheduled with the same delay run in the
\* order in which they were scheduled.
After(queue, callbacks) == queue \o callbacks

\* self.text_widget.winfo_exists()
WinfoExists(w) == w # 0 /\ w = log_window

\* show_logger_window: when no window exists, a window and its Text widget are
\* created and a TextHandler for that widget is added to the root logger; an
\* existing window is only lifted.
ShowLoggerWindow ==
    /\ root_exists
    /\ IF log_window = 0
       THEN /\ Len(log_handlers) < MaxWindows
            /\ log_window' = Len(log_handlers) + 1
            /\ log_handlers' = Append(log_handlers, Len(log_handlers) + 1)
       ELSE UNCHANGED <<log_window, log_handlers>>
    /\ UNCHANGED <<emitted, after_queue, log_text, root_exists, batchVars>>

\* self.text_widget.after(2500, append) on widget w raises as the widget was closed.
AfterRaisesOnClosedWidget(w) == ~WinfoExists(w)

\* self.text_widget.after(2500, append) on widget w: Misc.after registers the callback
\* with the interpreter and calls Tcl's after, neither of which looks at the widget;
\* it raises only when the application has been destroyed.
AfterRaises(w) == ~root_exists

\* A log call now would raise in the worker: TextHandler.emit catches nothing, so
\* the first handler whose after() raises ends the call.
LogCallRaises == \E i \in DOMAIN log_handlers : AfterRaises(log_handlers[i])

\* A worker logs a record: TextHandler.emit of every attached handler formats it
\* and schedules append() for its own widget, then returns.
Emit ==
    /\ log_handlers # <<>>
    /\ ~LogCallRaises
    /\ Len(emitted) < MaxRecords
    /\ emitted' = Append(emitted, log_window)
    /\ after_queue' =
          After(after_queue,
                [i \in 1..Len(log_handlers) |->
                    [widget |-> log_handlers[i], record |-> Len(emitted) + 1]])
    /\ UNCHANGED <<log_window, log_handlers, log_text, root_exists, batchVars>>

\* The UI loop runs the oldest scheduled append(): the record is inserted when the
\* widget still exists and dropped otherwise.
RunAppend ==
    /\ after_queue # <<>>
    /\ after_queue' = Tail(after_queue)
    /\ IF WinfoExists(Head(after_queue).widget)
       THEN log_text' = [log_text EXCEPT ![Head(after_queue).widget] =
                            Append(@, [record |-> Head(after_queue).record, by |-> "ui"])]
       ELSE UNCHANGED log_text
    /\ UNCHANGED <<log_window, log_handlers, emitted, root_exists, batchVars>>

\* The user closes the processing-status window; its handler stays attached.
CloseLoggerWindow ==
    /\ log_window # 0
    /\ log_window' = 0
    /\ UNCHANGED <<log_handlers, emitted, after_queue, log_text, root_exists, batchVars>>

\* confirm_close_app: the user closes the main window and confirms; the root and
\* every window under it are destroyed and the UI loop ends, so the scheduled
\* appends never run.
ConfirmCloseApp ==
    /\ root_exists
    /\ root_exists' = FALSE
    /\ log_window' = 0
    /\ after_queue' = <<>>
    /\ UNCHANGED <<log_handlers, emitted, log_text, batchVars>>

\* A batch about to start, with no window yet.
LogInit ==
    /\ InitBatch
    /\ strategy = "ledger"
    /\ credential.exists /\ Len(credential.fields) = 2
    /\ dst_dir_exists /\ ~dstBak[1]
    /\ directory = StockDirectory(1)

LogNext ==
    \/ ShowLoggerWindow
    \/ Emit
    \/ RunAppend
    \/ CloseLoggerWindow
    \/ ConfirmCloseApp

\* The log sink alone: workers that log, the UI loop, and the user closing the window.
LogSpec == LogInit /\ [][LogNext]_vars

DiscoveryNext ==
    \/ Discover
    \/ RunAgain

\* Discovery alone, over every folder of at most MaxEntries entries.
DiscoverySpec == DiscoveryInit /\ [][DiscoveryNext]_vars

TypeOK ==
    /\ Len(steps_done) <= 5
    /\ processes = <<>> /\ proc_idx = 0 /\ lock_events = <<>>
    /\ \A w \in 1..MaxWorkers : thread_callback[w] = "none" /\ thread_pc[w] = "idle"
    /\ viewer_open = {} /\ ~app_signalled
    /\ bound_fields = "none" /\ confirmed = NoRun /\ constructed = NoRun
    /\ ~app_settings_window /\ openai_key_entry = ""
    /\ api_key \in {"unset", "key"}
    /\ log_window = 0 /\ log_handlers = <<>> /\ emitted = <<>> /\ after_queue = <<>>
    /\ root_exists
    /\ response \in Responses \cup {NoResponse}
    /\ result \in {NoResult, ParseErrorResult} \cup {ParseResponse(b) : b \in Responses}
    /\ directory \in {StockDirectory(n) : n \in 0..(IF MaxFiles > MaxLedgerFiles THEN MaxFiles ELSE MaxLedgerFiles)}
    /\ runs \in 0..1
    /\ first_listing \in {<<>>, filtered_image_files}
    /\ filtered_image_files \in {[i \in 1..n |-> i] : n \in 0..Len(directory)}
    /\ gen_prompt \in {"unset", "prompt", "prompt+context"}
    /\ strategy \in {"embed", "ledger"}
    /\ pc \in {"start", "loop", "makedirs", "lock", "open", "temp", "copy", "load", "caption",
               "service", "persist", "move", "copying", "moved", "finally", "delete",
               "report", "csv_open", "l_open", "l_caption", "l_service", "l_write",
               "Done", "FatalAbort", "Crashed", "Returned"}
    /\ idx \in 0..Len(filtered_image_files)
    /\ Len(filtered_image_files) \in 0..(IF strategy = "embed" THEN MaxFiles ELSE MaxLedgerFiles)
    /\ processed_count \in 0..Len(filtered_image_files)
    /\ temp_image_path \in 0..MaxFiles
    /\ image_caption \in {"unset", "None", "", "iptc_caption", "xmp_caption"}
    /\ exc \in ExceptionClasses \cup {"none", "SystemExit"}
    /\ \A i \in Items : /\ srcDisk[i] \in Contents
                        /\ dstDisk[i] \in Contents
                        /\ tempDisk[i] \in Contents
                        /\ outcome[i] \in {"pending", "ok", "failed", "unreachable", "fatal"}
    /\ terminated \subseteq Pids
    /\ csv_rows \in 0..MaxLedgerFiles
    /\ exit_status \in {0, 1}


(***************************************************************************)
(* Properties                                                              *)
(***************************************************************************)

Discovered == 1..Len(filtered_image_files)

\* Control has left item i by the normal end of the loop body.
Finished(i) == i < idx \/ (i = idx /\ pc \in {"loop", "report", "Done"})

\* Control has left item i, by any path.
Left(i) ==
    i < idx \/ (i = idx /\ pc \in {"delete", "loop", "report", "Done", "FatalAbort", "Crashed"})

\* The steps at which the commit of an embed item can fail.
CommitSteps == {"temp", "copy", "load", "service", "parse", "persist", "move"}

\* The credential file is absent or is not of the form "<date>; <key>".
CredentialUnreadable == ~credential.exists \/ Len(credential.fields) < 2

\* Item j has not been touched by the batch.
Untouched(j) ==
    /\ outcome[j] = "pending"
    /\ srcDisk[j] = "orig"
    /\ tempDisk[j] = "none"
    /\ dstDisk[j] \in {"none", "old"}
    /\ ~tmpBak[j]

\* C1: per-item failure isolation. No exception raised while an item is handled
\* leaves the method (the worker never ends with a traceback), and a batch that
\* reports counts every failed item as unprocessed and every other item as processed.
C1_FailureIsolation ==
    /\ pc # "Crashed"
    /\ pc = "Done" =>
          /\ unprocessed_count =
                Cardinality({i \in Discovered : outcome[i] \in {"failed", "unreachable"}})
          /\ processed_count = Cardinality({i \in Discovered : outcome[i] = "ok"})

\* C2: embed strategy, failed commit. When an item whose commit failed at any of the
\* commit steps reaches the end of its finally clause, the file at its source path
\* still has the original bytes, its temp file is gone and the destination path holds
\* no file made by this item.
C2_FailedCommitLeavesNoTrace ==
    (strategy = "embed" /\ pc = "delete" /\ failed_step \in CommitSteps) =>
        /\ srcDisk[idx] = "orig"
        /\ tempDisk[idx] = "none"
        /\ DestContent(idx) \in {"none", "old", "orig"}

\* C3: embed strategy, successful commit. For every item that finished with a
\* successful commit while the source and destination path strings differ, no file
\* is left at the source path and the destination path holds the rewritten image.
C3_SuccessfulCommitMovesFile ==
    \A i \in Discovered :
        (strategy = "embed" /\ Finished(i) /\ outcome[i] = "ok" /\ PathsDiffer) =>
            /\ srcDisk[i] = "none"
            /\ DestContent(i) = "new"

\* C4: embed strategy, temp file cleanup. The finally clause never raises, and once
\* control has left an item, by any exit path, that item's temp file does not exist.
C4_TempRemovedOnEveryExit ==
    /\ ~(pc = "Crashed" /\ failed_step = "cleanup")
    /\ \A i \in Discovered : (strategy = "embed" /\ Left(i)) => tempDisk[i] = "none"

\* C5: embed strategy, atomic replacement. In every state the destination path of
\* every item holds no file, its previous complete content, or the complete
\* rewritten image, never a partly written file.
C5_DestinationNeverPartial ==
    \A i \in Items : DestContent(i) \in {"none", "old", "orig", "new"}

\* C6: embed strategy, deletion of the source. The file at an item's source path is
\* gone only if that item's move onto the destination succeeded and the destination
\* is another location than the source, where the rewritten image then is.
C6_SourceDeletedOnlyAfterMove ==
    \A i \in Items :
        srcDisk[i] = "none" =>
            /\ outcome[i] = "ok"
            /\ ~SameLocation
            /\ dstDisk[i] = "new"

\* C7: batch statistics. When the summary has been emitted, processed_count plus
\* unprocessed_count is the number of discovered files and neither is negative.
C7_StatsAddUp ==
    pc = "Done" =>
        /\ processed_count + unprocessed_count = Len(filtered_image_files)
        /\ processed_count >= 0
        /\ unprocessed_count >= 0

\* A batch of three has reported two processed and one unprocessed item.
C7_Witness ==
    /\ pc = "Done"
    /\ Len(filtered_image_files) = 3
    /\ processed_count = 2
    /\ unprocessed_count = 1

\* C8: empty discovery is fatal. Once Discovery has returned no file, the batch is in
\* the fatal-abort state with exit status 1, and no request was sent, no process
\* terminated, no directory, temp file or ledger file created and no summary emitted.
C8_EmptyDiscoveryIsFatal ==
    (pc # "start" /\ Len(filtered_image_files) = 0) =>
        /\ pc = "FatalAbort"
        /\ exit_status = 1
        /\ requests_sent = 0
        /\ terminated = {}
        /\ ~made_dir
        /\ ~csv_exists
        /\ \A i \in Items : tempDisk[i] = "none"
        /\ summaries = 0

\* A ledger batch has aborted on an empty discovery while the destination
\* directory does not exist.
C8_Witness ==
    /\ pc = "FatalAbort"
    /\ Len(filtered_image_files) = 0
    /\ strategy = "ledger"
    /\ ~dst_dir_exists

\* C9: an unreadable credential is fatal. While the credential file is absent or
\* malformed no request is sent and nothing is committed; the item whose service call
\* read it is the last item the batch touches: the loop never advances past it, the
\* exit status is 1 and every later item is untouched.
C9_UnreadableCredentialIsFatal ==
    CredentialUnreadable =>
        /\ requests_sent = 0
        /\ processed_count = 0
        /\ csv_rows = 0
        /\ pc \notin {"persist", "move", "copying", "moved", "l_write"}
        /\ \A i \in Discovered :
              outcome[i] = "fatal" =>
                  /\ idx = i
                  /\ pc \in {"finally", "FatalAbort", "Crashed"}
                  /\ exit_status = 1
                  /\ summaries = 0
                  /\ \A j \in Discovered : j > i => Untouched(j)

\* An embed batch of three has aborted at its second item, the first one having
\* failed for a reason of its own, with the credential file absent.
C9_Witness ==
    /\ pc = "FatalAbort"
    /\ strategy = "embed"
    /\ ~credential.exists
    /\ Len(filtered_image_files) = 3
    /\ idx = 2
    /\ outcome[1] = "failed"
    /\ outcome[2] = "fatal"

CaptionReadFailed == readers.iptc = "failure" /\ readers.xmp = "failure"

C12_LedgerLeavesSourcesAlone ==
    strategy = "ledger" =>
        /\ \A i \in Items : srcDisk[i] = "orig" /\ tempDisk[i] = "none" /\ ~tmpBak[i]
        /\ temp_image_path = 0
        /\ terminated = {}

\* A ledger batch has ended after writing a row for one item and failing another.
C12_Witness ==
    /\ strategy = "ledger"
    /\ pc = "Done"
    /\ \E i \in Discovered : outcome[i] = "ok"
    /\ \E i \in Discovered : outcome[i] = "failed"

\* C13: batch state machine. A batch never ends anywhere but in Done or FatalAbort;
\* Done is reached only after the loop has visited every discovered item and the
\* summary has been emitted exactly once; FatalAbort is reached only from empty
\* discovery or from a fatal failure at the service call of the current item, and
\* emits no summary.
C13_TwoTerminalStates ==
    /\ pc \notin {"Crashed", "Returned"}
    /\ summaries <= 1
    /\ pc = "Done" => idx = Len(filtered_image_files) /\ summaries = 1
    /\ pc = "FatalAbort" =>
          /\ summaries = 0
          /\ \/ NoImageFiles(filtered_image_files)
             \/ idx \in Discovered /\ outcome[idx] = "fatal"


\* C14: the Lock Releaser never blocks the commit. Under the embed strategy no
\* exception leaves terminate_processes_using_file: no item's pipeline stops at the
\* lock-release step, on any platform and whatever the enumeration tool does.
C14_LockReleaserNeverRaises ==
    strategy = "embed" => failed_step # "lock" /\ (exc # "none" => pc # "lock")


\* C15 as stated: Caption Extractor result. Once the two readers have run for an
\* item, the caption is the IPTC caption when that reader returned a value,
\* otherwise the XMP description when that reader returned a value, otherwise None.
C15_CaptionOrNone ==
    readers.iptc # "unset" =>
        image_caption = IF readers.iptc = "value" THEN "iptc_caption"
                        ELSE IF readers.xmp = "value" THEN "xmp_caption"
                        ELSE "None"

\* C15 amended: Caption Extractor result. Once the two readers have run for an
\* item, the caption is the IPTC caption when that reader returned a value,
\* otherwise the XMP description when that reader returned a value, otherwise what
\* the XMP reader returned: the empty string when it found an empty description,
\* None when it failed. The IPTC value takes priority over the XMP value.
C15_CaptionOrFalsy ==
    readers.iptc # "unset" =>
        /\ readers.iptc = "value" => image_caption = "iptc_caption"
        /\ readers.iptc # "value" /\ readers.xmp = "value" => image_caption = "xmp_caption"
        /\ readers.iptc # "value" /\ readers.xmp = "empty" => image_caption = ""
        /\ readers.iptc # "value" /\ readers.xmp = "failure" => image_caption = "None"

\* Both readers returned a value and the caption of the item is the IPTC one.
C15_Witness ==
    /\ readers = [iptc |-> "value", xmp |-> "value"]
    /\ image_caption = "iptc_caption"
    /\ pc \in {"service", "l_service"}


\* Some caption reader failed for the current item.
SomeReaderFailed == readers.iptc = "failure" \/ readers.xmp = "failure"

\* C16 as stated: caption read failure is non-fatal. When either caption reader has
\* failed for the current item, nothing was raised to the caller, and the request
\* of that item, once built, carries no caption context.
C16_ReaderFailureGivesNoContext ==
    SomeReaderFailed =>
        /\ pc \in {"service", "l_service"} => exc = "none" /\ outcome[idx] = "pending"
        /\ gen_prompt # "unset" => gen_prompt = "prompt"

\* C16 amended: caption read failure is non-fatal. When either caption reader has
\* failed for the current item, nothing was raised to the caller: the item stands
\* at the service call with no failure recorded; the request of that item, once
\* built, carries caption context exactly when the other reader returned a value.
C16_ReaderFailureIsNonFatal ==
    SomeReaderFailed =>
        /\ pc \in {"service", "l_service"} =>
              exc = "none" /\ outcome[idx] = "pending" /\ failed_step = "none"
        /\ gen_prompt # "unset" =>
              gen_prompt = IF readers.iptc = "value" \/ readers.xmp = "value"
                           THEN "prompt+context" ELSE "prompt"

\* An item whose two caption readers failed was sent without caption context and
\* was committed under the embed strategy.
C16_Witness ==
    /\ strategy = "embed"
    /\ CaptionReadFailed
    /\ gen_prompt = "prompt"
    /\ idx \in Discovered
    /\ outcome[idx] = "ok"
    /\ processed_count > 0


\* Where the entry named n stands in the directory listing.
PositionOf(n) == CHOOSE k \in DOMAIN directory : directory[k].name = n

Blank(t) == \A i \in DOMAIN t : t[i] = " "

\* Where a keyword first stands in the keyword list of the response.
FirstOccurrence(k) ==
    CHOOSE i \in DOMAIN response.keywords :
        /\ response.keywords[i] = k
        /\ \A j \in 1..(i - 1) : response.keywords[j] # k

\* The current item's result has been handed to a committer.
HandedToCommitter == pc \in {"persist", "move", "copying", "moved", "l_write"}

\* C18: DescriptionResult validity. A result handed to a committer has a title and
\* a description that are not blank and carry no space at either end, and its
\* keywords are exactly the non-empty keywords of the response, each once, in the
\* order of their first occurrence. A response without structure, or with a blank
\* title or description, has given a ParseError: the item is counted as failed at
\* the parse step, nothing is handed to a committer, the batch is not aborted, and
\* as long as no later step of the item fails no exception is in flight.
C18_DescriptionResultValid ==
    /\ HandedToCommitter =>
          /\ result.status = "ok"
          /\ ~Blank(result.title) /\ ~Blank(result.description)
          /\ Head(result.title) # " " /\ result.title[Len(result.title)] # " "
          /\ Head(result.description) # " "
          /\ result.description[Len(result.description)] # " "
          /\ \A i \in DOMAIN result.keywords : result.keywords[i] # ""
          /\ \A i \in DOMAIN result.keywords : \A j \in DOMAIN result.keywords :
                i < j => /\ result.keywords[i] # result.keywords[j]
                         /\ FirstOccurrence(result.keywords[i])
                               < FirstOccurrence(result.keywords[j])
          /\ {result.keywords[i] : i \in DOMAIN result.keywords}
                = {response.keywords[i] : i \in DOMAIN response.keywords} \ {""}
    /\ (response.payload = "noise"
           \/ (response.payload = "fields"
                  /\ (Blank(response.title) \/ Blank(response.description)))) =>
          /\ result.status = "ParseError"
          /\ outcome[idx] = "failed"
          /\ ~HandedToCommitter
          /\ exit_status = 0
          /\ pc # "FatalAbort"
          /\ failed_step = "parse" => exc = "none" /\ pc # "Crashed"

\* After a ParseError on the first item, the parser has trimmed the title of the
\* second, dropped an empty keyword and a repeated one, and the result is with the
\* embed committer.
C18_Witness ==
    /\ idx = 2
    /\ outcome[1] = "failed"
    /\ pc = "persist"
    /\ response.title = <<" ", "a">>
    /\ response.keywords = <<"sun", "", "sun">>
    /\ result.title = <<"a">>
    /\ result.keywords = <<"sun">>


\* The records inserted into widget w, in the order of insertion.
Shown(w) == [i \in DOMAIN log_text[w] |-> log_text[w][i].record]

\* The append of record r for widget w is scheduled and has not run yet.
Pending(r, w) ==
    \E i \in DOMAIN after_queue : after_queue[i] = [widget |-> w, record |-> r]

\* How many times record r stands in widget w.
TimesShown(r, w) == Cardinality({i \in DOMAIN log_text[w] : log_text[w][i].record = r})

\* C19 as stated: log sink hand-off. Every insertion into a widget is made by the UI
\* loop, the records of a widget stand in emission order, and every record emitted
\* while a display existed stands exactly once in that display as soon as its
\* deferred append is no longer pending.
C19_EveryRecordAppendedOnce ==
    /\ \A w \in DOMAIN log_text : \A i \in DOMAIN log_text[w] : log_text[w][i].by = "ui"
    /\ \A w \in DOMAIN log_text : \A i \in DOMAIN log_text[w] : \A j \in DOMAIN log_text[w] :
          i < j => log_text[w][i].record < log_text[w][j].record
    /\ \A r \in DOMAIN emitted :
          emitted[r] # 0 /\ ~Pending(r, emitted[r]) => TimesShown(r, emitted[r]) = 1

\* C19 amended: log sink hand-off. Every insertion into a widget is made by the UI
\* loop; the records of a widget stand in emission order, each at most once, and
\* each was emitted while that widget was the display; a record emitted while a
\* display existed stands in it as soon as its deferred append is no longer
\* pending, provided the display still exists; the worker's emit only lengthens
\* the queue of scheduled appends.
C19_RecordAppendedWhileWindowLives ==
    /\ \A w \in DOMAIN log_text : \A i \in DOMAIN log_text[w] :
          /\ log_text[w][i].by = "ui"
          /\ emitted[log_text[w][i].record] = w
    /\ \A w \in DOMAIN log_text : \A i \in DOMAIN log_text[w] : \A j \in DOMAIN log_text[w] :
          i < j => log_text[w][i].record < log_text[w][j].record
    /\ \A r \in DOMAIN emitted :
          emitted[r] # 0 /\ ~Pending(r, emitted[r]) /\ WinfoExists(emitted[r])
             => TimesShown(r, emitted[r]) = 1
    /\ \A i \in DOMAIN after_queue : after_queue[i].record \in DOMAIN emitted

\* Three records: the first was inserted into the first window, the second was
\* emitted while that window existed and dropped because the window was closed
\* before its append ran, the third was inserted into the second window.
C19_Witness ==
    /\ emitted = <<1, 1, 2>>
    /\ after_queue = <<>>
    /\ Shown(1) = <<1>>
    /\ Shown(2) = <<3>>


\* The order of the steps of one item.
StepOrder == <<"caption", "service", "parse", "commit", "record">>

\* Sequence s is an initial part of sequence t.
IsPrefix(s, t) == Len(s) <= Len(t) /\ s = SubSeq(t, 1, Len(s))

\* C20: per-item ordering. The steps an item has completed are always an initial
\* part of extract caption, call service, parse response, commit, record outcome,
\* the commit being the move onto the destination path or the ledger row. Nothing
\* of the item's result is in its temp file, at its destination path or in the
\* ledger before its response has been parsed; its success is recorded exactly
\* when all five steps are completed; and nothing of an item the loop has not
\* reached yet is written or recorded.
C20_PerItemOrdering ==
    /\ IsPrefix(steps_done, StepOrder)
    /\ idx \in Discovered =>
          /\ (tempDisk[idx] = "new" \/ DestContent(idx) \in {"new", "partial"})
                => IsPrefix(<<"caption", "service", "parse">>, steps_done)
          /\ outcome[idx] = "ok" <=> steps_done = StepOrder
          /\ strategy = "ledger" =>
                csv_rows = Cardinality({i \in 1..(idx - 1) : outcome[i] = "ok"})
                              + (IF IsPrefix(<<"caption", "service", "parse", "commit">>, steps_done)
                                 THEN 1 ELSE 0)
    /\ \A i \in Discovered :
          i > idx => /\ outcome[i] = "pending"
                     /\ tempDisk[i] = "none"
                     /\ DestContent(i) \notin {"new", "partial"}

\* The second item of an embed batch, after a first item that failed, has completed
\* its five steps and its file is at the destination.
C20_Witness ==
    /\ strategy = "embed"
    /\ idx = 2
    /\ outcome[1] = "failed"
    /\ steps_done = StepOrder
    /\ DestContent(2) = "new"
    /\ pc = "finally"

(***************************************************************************)
(* Lock Releaser serialization                                             *)
(***************************************************************************)

\* What the Lock Releaser did for the k-th entry of processes.
EventsOf(k) == SelectSeq(lock_events, LAMBDA e : e[2] = k)

\* A signal, the wait for the exit and the pause for each of the first n entries.
RECURSIVE FullHandling(_)
FullHandling(n) ==
    IF n = 0 THEN <<>>
    ELSE FullHandling(n - 1) \o <<<<"signal", n>>, <<"wait", n>>, <<"pause", n>>>>

\* The current item is between the return of the Lock Releaser and the finally clause.
PastLockReleaser ==
    pc \in {"open", "temp", "copy", "load", "caption", "service", "persist", "move",
            "copying", "moved"}

\* C21 as stated: the holders are handled one at a time in enumeration order; for
\* each one a termination signal is sent, then its exit is awaited, then a pause
\* elapses, all before the signal for the next one; and the item's commit starts
\* only after the last holder has been handled in this way.
C21_EveryHolderSignalledInTurn ==
    /\ IsPrefix(lock_events, FullHandling(Len(processes)))
    /\ PastLockReleaser => lock_events = FullHandling(Len(processes))

\* C21, amended: the entries are handled one at a time in enumeration order. For
\* each one either a termination signal is sent, its exit is awaited and a pause
\* elapses, or (process gone, access denied) only the pause elapses; nothing is done
\* for an entry before the pause of the entry before it; and the item's commit
\* starts only after the pause of the last entry.
C21_HoldersHandledInTurn ==
    /\ \A i \in 1..Len(lock_events) : \A j \in i..Len(lock_events) :
          lock_events[i][2] <= lock_events[j][2]
    /\ \A k \in 1..Len(processes) :
          /\ \/ IsPrefix(EventsOf(k), <<<<"signal", k>>, <<"wait", k>>, <<"pause", k>>>>)
             \/ EventsOf(k) = <<<<"pause", k>>>>
          /\ k > proc_idx => EventsOf(k) = <<>>
          /\ (k < proc_idx \/ PastLockReleaser) =>
                EventsOf(k) # <<>> /\ EventsOf(k)[Len(EventsOf(k))] = <<"pause", k>>
    /\ \A i \in 1..Len(lock_events) : lock_events[i][2] \in 1..Len(processes)
    /\ PastLockReleaser => proc_idx = Len(processes)

\* The commit of an item has started after two holders were handled, the first
\* signalled and awaited, the second one only paused for.
C21_Witness ==
    /\ pc = "move"
    /\ Len(processes) = 2
    /\ lock_events = <<<<"signal", 1>>, <<"wait", 1>>, <<"pause", 1>>, <<"pause", 2>>>>

(***************************************************************************)
(* Embed strategy: processed_count                                         *)
(***************************************************************************)

\* The move of item i onto its destination path has succeeded.
MoveSucceeded(i) ==
    \/ outcome[i] = "ok"
    \/ i = idx /\ pc = "moved"

\* A step of the embed loop changes processed_count only by adding one, for the
\* current item, whose move has just succeeded and which had not been counted.
ProcessedCountStep ==
    (strategy = "embed" /\ processed_count' # processed_count) =>
        /\ processed_count' = processed_count + 1
        /\ pc = "moved" /\ idx' = idx
        /\ DestContent(idx) = "new" /\ tempDisk[idx] = "none"
        /\ outcome[idx] = "pending" /\ outcome'[idx] = "ok"
        /\ failed_step = "none"

\* In the embed loop processed_count is the number of items whose move has succeeded,
\* the item whose move has just returned being counted by the next statement; an
\* item that failed at any step is not among them and has nothing of its result at
\* its destination path unless the move itself was interrupted.
ProcessedCountIsCommitted ==
    strategy = "embed" =>
        /\ processed_count
              = Cardinality({i \in Discovered : MoveSucceeded(i)})
                   - (IF pc = "moved" THEN 1 ELSE 0)
        /\ \A i \in Discovered :
              /\ outcome[i] = "ok" => i <= idx
              /\ (i = idx /\ failed_step \in CommitSteps) => outcome[i] # "ok"
              /\ (DestContent(i) = "new" /\ i <= idx) => MoveSucceeded(i)
              /\ (MoveSucceeded(i) /\ dst_kind # "alias") => DestContent(i) = "new"

\* C22: in an embed batch processed_count never decreases, is incremented exactly
\* once for an item and only after that item's move onto the destination has
\* succeeded, never for an item whose commit failed, and it equals the number of
\* items committed so far.
C22_ProcessedCountCountsCommits ==
    []ProcessedCountIsCommitted /\ [][ProcessedCountStep]_vars

\* An embed batch of three items has reported: the second item failed at the move,
\* the other two were committed and counted.
C22_Witness ==
    /\ strategy = "embed" /\ pc = "Done"
    /\ Len(filtered_image_files) = 3
    /\ outcome[1] = "ok" /\ outcome[2] = "failed" /\ outcome[3] = "ok"
    /\ DestContent(2) # "new"
    /\ processed_count = 2

(***************************************************************************)
(* The Lock Releaser and the process that runs the pipeline                *)
(***************************************************************************)

\* C23: the Lock Releaser never terminates the process that is running the pipeline,
\* also when several batches run at the same time in the application and one of
\* them has an image open while the Lock Releaser of another enumerates its holders.
C23_NeverTerminatesOwnProcess == ~app_signalled

(***************************************************************************)
(* The fields a batch runs with                                            *)
(***************************************************************************)

\* C24: a batch runs with exactly the prompt, source folder and destination folder
\* that were validated and shown when RUN was confirmed, and those are the fields of
\* the window whose RUN button was pressed; prompt and source folder are not empty.
C24_BatchRunsWithConfirmedFields ==
    constructed # NoRun =>
        /\ constructed.prompt = confirmed.prompt
        /\ constructed.src = confirmed.src
        /\ constructed.dst = confirmed.dst
        /\ constructed.prompt # "" /\ constructed.src # ""
        /\ confirmed.read_from = confirmed.pressed
        /\ constructed.read_from = confirmed.pressed

(***************************************************************************)
(* The stored credential                                                   *)
(***************************************************************************)

\* A save with an empty API key entry leaves the credential file as it was.
EmptyKeyRejected == (SaveAppSettings /\ openai_key_entry = "") => credential' = credential

\* C25: saving the settings with an empty API key entry is rejected and leaves the
\* stored credential file unchanged, and no service request is ever sent with an
\* empty bearer credential.
C25_EmptyKeyNeverStoredNorSent ==
    [][EmptyKeyRejected]_vars /\ [](api_key # "")

(***************************************************************************)
(* Backup files of the persistence step                                    *)
(***************************************************************************)

\* No step removes a file destination_path + '~': the persistence step never creates
\* one, so any such file is one the item did not create.
ForeignBackupKept == \A i \in Items : dstBak[i] => dstBak'[i]

\* The backup temp_image_path + '~' that info.save_as left for item i is gone.
OwnBackupRemoved(i) == ~tmpBak[i]

\* C26: after every embed item finishes, with success or failure, no backup file
\* produced by that item's persistence step remains on disk, and the cleanup removes
\* no '~' file that the item did not create.
C26_BackupCleanedWhereItWasMade ==
    [](\A i \in Discovered : (strategy = "embed" /\ Finished(i)) => OwnBackupRemoved(i))
        /\ [][ForeignBackupKept]_vars

(***************************************************************************)
(* Closing the processing-status window                                    *)
(***************************************************************************)

\* The TextHandlers attached to the root logger whose widget is w.
HandlersOf(w) == {i \in DOMAIN log_handlers : log_handlers[i] = w}

====
